---- MODULE Spec2Model ----
(***************************************************************************)
(* A model of jellytui's Jellyfin client (src/src/jellyfin.rs): the        *)
(* authenticated request layer (request / authenticate), the playback      *)
(* monitor's read loop with its progress throttle, the next-episode        *)
(* resolution at end of stream, play_media from the spawn of the player    *)
(* on, the process registry and its cleanup, the catalog cache, and the    *)
(* run loop of the application (src/src/app.rs).                           *)
(***************************************************************************)
EXTENDS Integers, Sequences, FiniteSets, TLC

\* ------------------------------------------------------------------ bounds

\* The server issues at most this many access tokens in one run.
MaxTokens == 3

\* A playback session is followed for this many clock steps of TimeStep.
MaxTimeSteps == 4

\* The player reports positions of 0 .. MaxPosSteps steps of PosStep.
MaxPosSteps == 4

\* The catalogs of the next-episode resolution hold this many items.
MaxItems == 3

\* At most this many players are spawned in one run.
MaxChildren == 3

\* The cache file and the server hold items of the identifiers 1 .. MaxCached.
MaxCached == 2
MaxReads == 3
MaxQuery == 2
MaxIndex == 3

\* ------------------------------------------------------- program constants

\* StatusCode::UNAUTHORIZED and StatusCode::FORBIDDEN.
UNAUTHORIZED == "401"
FORBIDDEN == "403"

VARIABLES
    phase,          \* where the client is: "new", "ready", "exited"
    auth,           \* Jellyfin.auth: the stored access token, 0 for None
    issued,         \* server side: the number of access tokens issued so far;
                    \* the n-th token issued is the number n
    call,           \* the last call of request: its inputs and its result
    wire,           \* the messages the last call of request put on the wire
    items,          \* Jellyfin.items: the catalog, item id -> MediaItem
    mstate,         \* the playback monitor: "Idle", "Connecting",
                    \* "Subscribing", "Observing", "Finished"
    item,           \* the item of the playback session
    last_position,  \* monitor_playback's last_position, in ticks
    last_update,    \* monitor_playback's last_update, an instant in ms
    now,            \* the wall clock, in ms
    result,         \* what monitor_playback returned
    observer,       \* which of the three records below is kept: "event",
                    \* "stream", "reports", or "none"
    ev,             \* the last frame read: the state it met, the pushes it made
    stream,         \* what the position events of the session were so far
    reported,       \* what the session reported to the server so far
    play,           \* play_media: where it is, the socket file of the
                    \* session, the way the monitor ended
    mpv_processes,  \* Jellyfin.mpv_processes: the handles, in order
    children,       \* the player processes: handle -> "running", "killed"
                    \* (terminated, not waited for) or "reaped"
    cleanup_log,    \* the last call of cleanup: what it met and what it did
    app,            \* App::run: where the loop is, App.current_action
    cache_file,     \* the file at Jellyfin.cache_path
    server_items,   \* server side: the items the Items query answers with
    returned        \* the last operation that returned, and its result

reqvars == <<phase, auth, issued, call, wire>>
monvars == <<items, mstate, item, last_position, last_update, now, result,
             observer, ev, stream, reported>>
outervars == <<play, mpv_processes, children, cleanup_log, app, cache_file,
               server_items, returned>>
vars == <<phase, auth, issued, call, wire, items, mstate, item, last_position,
          last_update, now, result, observer, ev, stream, reported,
          play, mpv_processes, children, cleanup_log, app, cache_file,
          server_items, returned>>

\* --------------------------------------------------------------- the server

\* An HTTP exchange ends with a status code, or fails in transport (send()
\* returns Err).  200 and 500 stand for "any status that is not 401".
OK == "200"
SERVER_ERROR == "500"
NetErr == "neterr"
Statuses == {OK, UNAUTHORIZED, SERVER_ERROR}
Responses == Statuses \cup {NetErr}

\* What /Users/AuthenticateByName may answer: a status, a transport error, or
\* a 200 whose body is not an AuthResponse.
BadBody == "badbody"
AuthAnswers == {OK, UNAUTHORIZED, FORBIDDEN, BadBody, NetErr}

\* The operations the client sends through request.
Ops == {"Items", "Progress"}

\* ------------------------------------------------------------ Result values

Ok(v) == [tag |-> "Ok", val |-> v]
Err(e) == [tag |-> "Err", val |-> e]
Panic == [tag |-> "Panic", val |-> "unwrap"]

\* ------------------------------------------------------------ authenticate

authenticate_clearing(tok, iss, a) ==
    LET msg == [kind |-> "auth", op |-> "AuthenticateByName", token |-> 0,
                resp |-> a]
    IN  IF a \in {NetErr, UNAUTHORIZED, FORBIDDEN, BadBody}
        THEN [res |-> Err(IF a = NetErr THEN "send"
                          ELSE IF a = UNAUTHORIZED THEN "401"
                          ELSE IF a = FORBIDDEN THEN "403" ELSE "json"),
              auth |-> 0, issued |-> iss, wire |-> <<msg>>]
        ELSE [res |-> Ok("unit"), auth |-> iss + 1, issued |-> iss + 1,
              wire |-> <<msg>>]

\* Jellyfin::authenticate: Err on 401, on 403, on a transport error and on a
\* body that does not parse; otherwise self.auth = Some(response).
\* tok is self.auth before the call, iss the server's token counter, a the
\* server's answer.  The result carries the new self.auth.
authenticate(tok, iss, a) ==
    LET msg == [kind |-> "auth", op |-> "AuthenticateByName", token |-> 0,
                resp |-> a]
    IN  IF a = NetErr
        THEN [res |-> Err("send"), auth |-> tok, issued |-> iss, wire |-> <<msg>>]
        ELSE IF a = UNAUTHORIZED
        THEN [res |-> Err("401"), auth |-> tok, issued |-> iss, wire |-> <<msg>>]
        ELSE IF a = FORBIDDEN
        THEN [res |-> Err("403"), auth |-> tok, issued |-> iss, wire |-> <<msg>>]
        ELSE IF a = BadBody
        THEN [res |-> Err("json"), auth |-> tok, issued |-> iss, wire |-> <<msg>>]
        ELSE [res |-> Ok("unit"), auth |-> iss + 1, issued |-> iss + 1, wire |-> <<msg>>]

\* ----------------------------------------------------------------- request

\* One send of the operation with the X-MediaBrowser-Token header set.
Send(op, tok, r) == [kind |-> "op", op |-> op, token |-> tok, resp |-> r]

TokenInvalidOnForbidden(r) == r = FORBIDDEN

\* The response that makes request re-authenticate:
\* response.status() != StatusCode::UNAUTHORIZED returns it as it is.
TokenInvalid(r) == r = UNAUTHORIZED

ResendTokenStale(tok, au) == tok

\* The token of the second send: self.auth is read again after authenticate.
ResendToken(tok, au) == au.auth

request_ignoring_auth_error(tok, iss, op, r1, a, r2) ==
    IF tok = 0
    THEN [res |-> Panic, auth |-> tok, issued |-> iss, wire |-> <<>>]
    ELSE IF r1 = NetErr
    THEN [res |-> Err("send"), auth |-> tok, issued |-> iss,
          wire |-> <<Send(op, tok, r1)>>]
    ELSE IF ~TokenInvalid(r1)
    THEN [res |-> Ok(r1), auth |-> tok, issued |-> iss,
          wire |-> <<Send(op, tok, r1)>>]
    ELSE LET au == authenticate(tok, iss, a)
         IN  [res |-> IF r2 = NetErr THEN Err("send") ELSE Ok(r2),
              auth |-> au.auth, issued |-> au.issued,
              wire |-> <<Send(op, tok, r1)>> \o au.wire
                       \o <<Send(op, ResendToken(tok, au), r2)>>]

\* Jellyfin::request.  tok is self.auth (0: None, and the unwrap panics), iss
\* the server's token counter; r1 answers the first send, a the
\* re-authentication, r2 the second send.  A response of any status is
\* returned as Ok(response); only a transport error or a failed
\* re-authentication is an Err.
request(tok, iss, op, r1, a, r2) ==
    IF tok = 0
    THEN [res |-> Panic, auth |-> tok, issued |-> iss, wire |-> <<>>]
    ELSE IF r1 = NetErr
    THEN [res |-> Err("send"), auth |-> tok, issued |-> iss,
          wire |-> <<Send(op, tok, r1)>>]
    ELSE IF ~TokenInvalid(r1)
    THEN [res |-> Ok(r1), auth |-> tok, issued |-> iss,
          wire |-> <<Send(op, tok, r1)>>]
    ELSE LET au == authenticate(tok, iss, a)
         IN  IF au.res.tag # "Ok"
             THEN [res |-> au.res, auth |-> au.auth, issued |-> au.issued,
                   wire |-> <<Send(op, tok, r1)>> \o au.wire]
             ELSE [res |-> IF r2 = NetErr THEN Err("send") ELSE Ok(r2),
                   auth |-> au.auth, issued |-> au.issued,
                   wire |-> <<Send(op, tok, r1)>> \o au.wire
                            \o <<Send(op, ResendToken(tok, au), r2)>>]

\* ------------------------------------------------------------------ options

\* Option<i64>: None and Some(x).
NoneI == [some |-> FALSE, v |-> 0]
SomeI(x) == [some |-> TRUE, v |-> x]

\* Option::map(|i| i + 1)
map_succ(o) == IF o.some THEN SomeI(o.v + 1) ELSE o

\* Option::unwrap_or
unwrap_or(o, d) == IF o.some THEN o.v ELSE d

\* ----------------------------------------------------------------- catalog

\* The fields of MediaItem the monitor reads.  Item and series identifiers
\* are numbers here.
MediaItem(id, sid, season, index) ==
    [id |-> id, series_id |-> sid, parent_index_number |-> season,
     index_number |-> index]

\* Option<MediaItem>
NoneItem == [some |-> FALSE, v |-> MediaItem(0, NoneI, NoneI, NoneI)]
SomeItem(e) == [some |-> TRUE, v |-> e]

\* The comparison of sort_by: (season, episode) with None as 0, tuples
\* compared lexicographically.
SortKeyLeq(x, y) ==
    LET xs == unwrap_or(x.parent_index_number, 0)
        xi == unwrap_or(x.index_number, 0)
        ys == unwrap_or(y.parent_index_number, 0)
        yi == unwrap_or(y.index_number, 0)
    IN  xs < ys \/ (xs = ys /\ xi <= yi)

\* Jellyfin::get_episodes_from_series: the items of the series, sorted.  The
\* HashMap yields its values in an arbitrary order and the sort is stable, so
\* items with equal keys may come in any order: the set of the vectors the
\* function may return.
get_episodes_from_series(cat, series_id) ==
    LET eps == {cat[k] : k \in {j \in DOMAIN cat :
                                  cat[j].series_id = SomeI(series_id)}}
        n == Cardinality(eps)
    IN  {s \in [1..n -> eps] :
            \A i, j \in 1..n :
                i < j => (s[i] # s[j] /\ SortKeyLeq(s[i], s[j]))}

\* The closure of find in the end-file arm:
\* ep.index_number == cur.index_number + 1
\*   || (ep.parent_index_number == cur.parent_index_number + 1
\*       && ep.index_number == Some(1))
IsNextEpisode(ep, cur) ==
    \/ ep.index_number = map_succ(cur.index_number)
    \/ /\ ep.parent_index_number = map_succ(cur.parent_index_number)
       /\ ep.index_number = SomeI(1)

find_last(eps, cur) ==
    LET hits == {i \in 1..Len(eps) : IsNextEpisode(eps[i], cur)}
    IN  IF hits = {}
        THEN NoneItem
        ELSE SomeItem(eps[CHOOSE i \in hits : \A j \in hits : i >= j])

\* Iterator::find(..).cloned(): the first element of eps the closure accepts.
find_next(eps, cur) ==
    LET hits == {i \in 1..Len(eps) : IsNextEpisode(eps[i], cur)}
    IN  IF hits = {}
        THEN NoneItem
        ELSE SomeItem(eps[CHOOSE i \in hits : \A j \in hits : i <= j])

\* ------------------------------------------------------------ time and ticks

\* position * 10_000_000.0: ticks per second.
TicksPerSecond == 10000000

\* The throttle's gates: 50_000_000 ticks and Duration::from_secs(10).
MinDeltaTicks == 50000000
MinIntervalSecs == 10

MsPerSec == 1000

\* The clock advances in steps of 5 seconds.
TimeStep == 5 * MsPerSec
MaxClock == MaxTimeSteps * TimeStep

\* The player reports positions in steps of 2.5 seconds: the frame's number is
\* k * 2.5.
PosSteps == 0..MaxPosSteps

\* (position * 10_000_000.0) as i64, for the position k * 2.5 seconds.
ToTicks(k) == (k * 5 * TicksPerSecond) \div 2

Abs(x) == IF x < 0 THEN 0 - x ELSE x

\* ------------------------------------------------------------------- frames

\* What one read of the socket parsed to (serde_json::Value), as far as the
\* dispatch looks at it: the event, the name, the data and the reason.
NoData == [t |-> "absent", v |-> 0]
NumData(k) == [t |-> "num", v |-> k]
BoolData(b) == [t |-> "bool", v |-> IF b THEN 1 ELSE 0]

PositionFrame(k) ==
    [event |-> "property-change", name |-> "playback-time",
     data |-> NumData(k), reason |-> "<absent>"]
PauseFrame(b) ==
    [event |-> "property-change", name |-> "pause",
     data |-> BoolData(b), reason |-> "<absent>"]
EndFileFrame(reason) ==
    [event |-> "end-file", name |-> "<absent>", data |-> NoData,
     reason |-> reason]
\* Bytes that are not one JSON value.
NotJsonFrame ==
    [event |-> "<not json>", name |-> "<absent>", data |-> NoData,
     reason |-> "<absent>"]
PositionFrames == {PositionFrame(k) : k \in PosSteps}
PauseFrames == {PauseFrame(b) : b \in BOOLEAN}
Frames ==
    PositionFrames \cup PauseFrames
        \cup {EndFileFrame("eof"), EndFileFrame("quit"), NotJsonFrame}

\* The frames that are neither a property-change of "pause" or
\* "playback-time" with a value of its type nor an end-file: JSON without an
\* "event", an "event" or a "name" that is not a string (a number, null), an
\* event or a property the monitor does not know, no "name", no "data", a
\* "data" of the wrong type.
Shape(event, name, data) ==
    [event |-> event, name |-> name, data |-> data, reason |-> "<absent>"]
MalformedFrames ==
    {NotJsonFrame,
     Shape("<absent>", "<absent>", NoData),
     Shape("<not a string>", "<absent>", NoData),
     Shape("seek", "<absent>", NoData),
     Shape("property-change", "<absent>", NoData),
     Shape("property-change", "<not a string>", NumData(1)),
     Shape("property-change", "volume", NumData(1)),
     Shape("property-change", "pause", NoData),
     Shape("property-change", "pause", NumData(1)),
     Shape("property-change", "playback-time", NoData),
     Shape("property-change", "playback-time", BoolData(TRUE))}

\* -------------------------------------------------------- the monitor's loop

\* The bodies of the requests the monitor sends.
ProgressPaused(id, pos, paused) ==
    [path |-> "Sessions/Playing/Progress", ItemId |-> id,
     PositionTicks |-> pos, IsPaused |-> IF paused = 1 THEN "true" ELSE "false"]
Progress(id, pos) ==
    [path |-> "Sessions/Playing/Progress", ItemId |-> id,
     PositionTicks |-> pos, IsPaused |-> "<absent>"]
Stopped(id, pos) ==
    [path |-> "Sessions/Playing/Stopped", ItemId |-> id,
     PositionTicks |-> pos, IsPaused |-> "<absent>"]

\* What one pass of the read loop leaves: whether the loop goes on
\* ("continue"), the function returns ("return", with the value) or an unwrap
\* panics; the two locals, the credentials, and the requests made.
Pass(ret, value, lp, lu, tok, iss, pushed) ==
    [ret |-> ret, value |-> value, last_position |-> lp, last_update |-> lu,
     auth |-> tok, issued |-> iss, pushed |-> pushed]

TelemetryUnwrapped(op, lp, lu, tok, iss, r1, a, r2) ==
    LET out == request(tok, iss, op, r1, a, r2)
    IN  IF out.res.tag # "Ok"
        THEN Pass("panic", NoneItem, lp, lu, out.auth, out.issued, <<op>>)
        ELSE Pass("continue", NoneItem, lp, lu, out.auth, out.issued, <<op>>)

\* A request whose error is printed and dropped: if let Err(e) = ... { eprintln }.
Telemetry(op, lp, lu, tok, iss, r1, a, r2) ==
    LET out == request(tok, iss, op, r1, a, r2)
    IN  IF out.res.tag = "Panic"
        THEN Pass("panic", NoneItem, lp, lu, out.auth, out.issued, <<>>)
        ELSE Pass("continue", NoneItem, lp, lu, out.auth, out.issued, <<op>>)

pause_arm_throttled(frame, t, lp, lu, tok, iss, cur, r1, a, r2) ==
    IF frame.data.t # "bool" \/ t - lu < MinIntervalSecs * MsPerSec
    THEN Pass("continue", NoneItem, lp, lu, tok, iss, <<>>)
    ELSE Telemetry(ProgressPaused(cur.id, lp, frame.data.v), lp, lu, tok, iss,
                   r1, a, r2)

pause_arm_position_zero(frame, t, lp, lu, tok, iss, cur, r1, a, r2) ==
    IF frame.data.t # "bool"
    THEN Pass("continue", NoneItem, lp, lu, tok, iss, <<>>)
    ELSE Telemetry(ProgressPaused(cur.id, 0, frame.data.v), lp, lu, tok, iss,
                   r1, a, r2)

\* The "pause" arm: a boolean value is pushed with last_position, whatever
\* the time; the locals are left alone.
pause_arm(frame, t, lp, lu, tok, iss, cur, r1, a, r2) ==
    IF frame.data.t # "bool"
    THEN Pass("continue", NoneItem, lp, lu, tok, iss, <<>>)
    ELSE Telemetry(ProgressPaused(cur.id, lp, frame.data.v), lp, lu, tok, iss,
                   r1, a, r2)

ThrottledInclusive(position_ticks, lp, elapsed) ==
    \/ Abs(position_ticks - lp) <= MinDeltaTicks
    \/ elapsed < MinIntervalSecs * MsPerSec

ThrottledWhenBoth(position_ticks, lp, elapsed) ==
    /\ Abs(position_ticks - lp) < MinDeltaTicks
    /\ elapsed < MinIntervalSecs * MsPerSec

\* The throttle gate: the event is skipped when the position moved less than
\* 50_000_000 ticks OR less than 10 seconds passed since last_update.
Throttled(position_ticks, lp, elapsed) ==
    \/ Abs(position_ticks - lp) < MinDeltaTicks
    \/ elapsed < MinIntervalSecs * MsPerSec

playback_time_arm_retrying(frame, t, lp, lu, tok, iss, cur, r1, a, r2) ==
    IF frame.data.t # "num"
    THEN Pass("continue", NoneItem, lp, lu, tok, iss, <<>>)
    ELSE LET position_ticks == ToTicks(frame.data.v)
             failed == request(tok, iss, Progress(cur.id, position_ticks),
                               r1, a, r2).res.tag = "Err"
         IN  IF Throttled(position_ticks, lp, t - lu)
             THEN Pass("continue", NoneItem, lp, lu, tok, iss, <<>>)
             ELSE Telemetry(Progress(cur.id, position_ticks),
                            IF failed THEN lp ELSE position_ticks,
                            IF failed THEN lu ELSE t, tok, iss, r1, a, r2)

\* The "playback-time" arm.
playback_time_arm(frame, t, lp, lu, tok, iss, cur, r1, a, r2) ==
    IF frame.data.t # "num"
    THEN Pass("continue", NoneItem, lp, lu, tok, iss, <<>>)
    ELSE LET position_ticks == ToTicks(frame.data.v)
         IN  IF Throttled(position_ticks, lp, t - lu)
             THEN Pass("continue", NoneItem, lp, lu, tok, iss, <<>>)
             ELSE Telemetry(Progress(cur.id, position_ticks),
                            position_ticks, t, tok, iss, r1, a, r2)

end_file_arm_any_reason(frame, lp, lu, tok, iss, cur, eps) ==
    IF ~cur.series_id.some
    THEN Pass("panic", NoneItem, lp, lu, tok, iss, <<>>)
    ELSE Pass("return", find_next(eps, cur), lp, lu, tok, iss, <<>>)

\* The "end-file" arm: on the reason "eof" the function returns the next
\* episode, found in eps, the sorted episodes of the item's series; an item
\* without a series makes the unwrap panic.
end_file_arm(frame, lp, lu, tok, iss, cur, eps) ==
    IF frame.reason # "eof"
    THEN Pass("continue", NoneItem, lp, lu, tok, iss, <<>>)
    ELSE IF ~cur.series_id.some
    THEN Pass("panic", NoneItem, lp, lu, tok, iss, <<>>)
    ELSE Pass("return", find_next(eps, cur), lp, lu, tok, iss, <<>>)

\* One pass of the while loop for a read of n > 0 bytes, at the instant t.
\* event.as_str().unwrap() and name.as_str().unwrap() panic on a value that
\* is not a string.
loop_body(frame, t, lp, lu, tok, iss, cur, eps, r1, a, r2) ==
    IF frame.event = "<not json>" \/ frame.event = "<absent>"
    THEN Pass("continue", NoneItem, lp, lu, tok, iss, <<>>)
    ELSE IF frame.event = "<not a string>"
    THEN Pass("panic", NoneItem, lp, lu, tok, iss, <<>>)
    ELSE IF frame.event = "property-change"
    THEN IF frame.name = "<absent>"
         THEN Pass("continue", NoneItem, lp, lu, tok, iss, <<>>)
         ELSE IF frame.name = "<not a string>"
         THEN Pass("panic", NoneItem, lp, lu, tok, iss, <<>>)
         ELSE IF frame.name = "pause"
         THEN pause_arm(frame, t, lp, lu, tok, iss, cur, r1, a, r2)
         ELSE IF frame.name = "playback-time"
         THEN playback_time_arm(frame, t, lp, lu, tok, iss, cur, r1, a, r2)
         ELSE Pass("continue", NoneItem, lp, lu, tok, iss, <<>>)
    ELSE IF frame.event = "end-file"
    THEN end_file_arm(frame, lp, lu, tok, iss, cur, eps)
    ELSE Pass("continue", NoneItem, lp, lu, tok, iss, <<>>)

after_loop_replaying(lp, lu, tok, iss, cur, r1, a, r2) ==
    LET out == Telemetry(Stopped(cur.id, lp), lp, lu, tok, iss, r1, a, r2)
    IN  Pass("return", SomeItem(cur), lp, lu, out.auth, out.issued, out.pushed)

\* After the loop: the "stopped" notification with last_position, its error
\* printed and dropped, and Ok(None).
after_loop(lp, lu, tok, iss, cur, r1, a, r2) ==
    LET out == Telemetry(Stopped(cur.id, lp), lp, lu, tok, iss, r1, a, r2)
    IN  IF out.ret = "panic"
        THEN out
        ELSE Pass("return", NoneItem, lp, lu, out.auth, out.issued, out.pushed)

\* ------------------------------------------------------------------ actions

NoCall == [op |-> "none", r1 |-> NetErr, a |-> NetErr, r2 |-> NetErr,
           issued0 |-> 0, res |-> Ok("unit")]

\* What monitor_playback returned: nothing yet, Ok(option) or a panic.
MRunning == [tag |-> "Running", val |-> NoneItem]
MOk(o) == [tag |-> "Ok", val |-> o]
MPanic == [tag |-> "Panic", val |-> NoneItem]

\* The read that ends the loop: n == 0, or an error of read.
ClosedFrame ==
    [event |-> "<closed>", name |-> "<absent>", data |-> NoData,
     reason |-> "<absent>"]

NoEv == [frame |-> NotJsonFrame, at |-> 0, lp0 |-> 0, lu0 |-> 0,
         pushed |-> <<>>]
NoStream == [any |-> FALSE, prev |-> 0, prevAt |-> 0, near |-> TRUE,
             lo |-> 0, hi |-> 0, pushes |-> 0]
NoReports == [any |-> FALSE, last |-> 0, nondecreasing |-> TRUE,
              events |-> FALSE, prev |-> 0, forward |-> TRUE]

\* The rest of the program at rest: play_media not called, no player
\* spawned, cleanup not called, the run loop not started, no cache file.
NoPlay == [pc |-> "idle", socket |-> "absent", exit |-> "none", attempts |-> 0,
           sent |-> <<>>]
NoCleanup ==
    [called |-> FALSE, again |-> FALSE, res |-> Ok("unit"), before |-> <<>>,
     kills |-> {}, waits |-> {}, terminated |-> {}]
NoApp == [pc |-> "idle", current_action |-> "None", cleanup_called |-> FALSE]
AbsentFile == [kind |-> "absent", entries |-> <<>>]
NoReturn == [op |-> "none", res |-> Ok("unit")]

Elsewhere ==
    /\ play = NoPlay
    /\ mpv_processes = <<>>
    /\ children = <<>>
    /\ cleanup_log = NoCleanup
    /\ app = NoApp
    /\ cache_file = AbsentFile
    /\ server_items = <<>>
    /\ returned = NoReturn

\* No session: the monitor's variables before play_media.
MonitorIdle ==
    /\ items = <<>>
    /\ mstate = "Idle"
    /\ item = NoneItem.v
    /\ last_position = 0
    /\ last_update = 0
    /\ now = 0
    /\ result = MRunning
    /\ observer = "none"
    /\ ev = NoEv
    /\ stream = NoStream
    /\ reported = NoReports

Init ==
    /\ phase = "new"
    /\ auth = 0
    /\ issued = 0
    /\ call = NoCall
    /\ wire = <<>>
    /\ MonitorIdle
    /\ Elsewhere

\* Jellyfin::new: authenticate first; a failure ends the process.
NewAuthenticate(a) ==
    /\ phase = "new"
    /\ LET au == authenticate(auth, issued, a)
       IN  /\ auth' = au.auth
           /\ issued' = au.issued
           /\ phase' = IF au.res.tag = "Ok" THEN "ready" ELSE "exited"
    /\ UNCHANGED <<call, wire>>
    /\ UNCHANGED monvars
    /\ UNCHANGED outervars

\* A call of request with an operation, the server answering r1, a, r2.
Execute(op, r1, a, r2) ==
    /\ phase = "ready"
    /\ (r1 = UNAUTHORIZED /\ a = OK) => issued < MaxTokens
    /\ LET out == request(auth, issued, op, r1, a, r2)
       IN  /\ auth' = out.auth
           /\ issued' = out.issued
           /\ wire' = out.wire
           /\ call' = [op |-> op, r1 |-> r1, a |-> a, r2 |-> r2,
                       issued0 |-> issued, res |-> out.res]
    /\ UNCHANGED phase
    /\ UNCHANGED monvars
    /\ UNCHANGED outervars

Next ==
    \/ \E a \in AuthAnswers : NewAuthenticate(a)
    \/ \E op \in Ops, r1 \in Responses, a \in AuthAnswers, r2 \in Responses :
          Execute(op, r1, a, r2)

Spec == Init /\ [][Next]_vars

\* ------------------------------------------------------- the playback session

\* A "playback-time" event that carries a number, a "pause" event that
\* carries a boolean.
IsPositionEvent(f) ==
    f.event = "property-change" /\ f.name = "playback-time" /\ f.data.t = "num"
IsPauseEvent(f) ==
    f.event = "property-change" /\ f.name = "pause" /\ f.data.t = "bool"

\* The record of the position events: the previous one, whether each two
\* consecutive ones were less than 5 s of media time and less than 10 s of
\* wall-clock time apart (near), the lowest and the highest position, and the
\* number of pushes the events caused.
Observe(st, f, t, pushed) ==
    IF ~IsPositionEvent(f)
    THEN st
    ELSE LET p == ToTicks(f.data.v)
         IN  [any |-> TRUE, prev |-> p, prevAt |-> t,
              near |-> st.near /\ (st.any =>
                          /\ Abs(p - st.prev) < 5 * TicksPerSecond
                          /\ t - st.prevAt < 10 * MsPerSec),
              lo |-> IF st.any /\ st.lo < p THEN st.lo ELSE p,
              hi |-> IF st.any /\ st.hi > p THEN st.hi ELSE p,
              pushes |-> st.pushes + Len(pushed)]

\* The record of the positions sent to the server, in order (the last one,
\* and whether none was lower than the one before it), and of the position
\* events read (the last one, and whether none was lower than the one before
\* it).
Report(rep, f, pushed) ==
    LET sent == pushed # <<>>
        p == IF IsPositionEvent(f) THEN ToTicks(f.data.v) ELSE rep.prev
    IN  [any |-> rep.any \/ sent,
         last |-> IF sent THEN pushed[1].PositionTicks ELSE rep.last,
         nondecreasing |-> rep.nondecreasing
             /\ ((rep.any /\ sent) => pushed[1].PositionTicks >= rep.last),
         events |-> rep.events \/ IsPositionEvent(f),
         prev |-> p,
         forward |-> rep.forward /\ (rep.events => p >= rep.prev)]

\* The session's state after a pass of the loop, or after the loop.
Leave(f, t, out) ==
    /\ now' = t
    /\ last_position' = out.last_position
    /\ last_update' = out.last_update
    /\ auth' = out.auth
    /\ issued' = out.issued
    /\ mstate' = IF out.ret = "continue" THEN "Observing" ELSE "Finished"
    /\ result' = IF out.ret = "continue" THEN result
                 ELSE IF out.ret = "panic" THEN MPanic ELSE MOk(out.value)
    /\ ev' = IF observer = "event"
             THEN [frame |-> f, at |-> t, lp0 |-> last_position,
                   lu0 |-> last_update, pushed |-> out.pushed]
             ELSE ev
    /\ stream' = IF observer = "stream"
                 THEN Observe(stream, f, t, out.pushed)
                 ELSE IF observer = "order"
                 THEN [stream EXCEPT !.reads = @ + 1]
                 ELSE stream
    /\ reported' = IF observer = "reports"
                   THEN Report(reported, f, out.pushed)
                   ELSE reported
    /\ UNCHANGED <<phase, wire, items, item, observer>>
    /\ UNCHANGED outervars

\* The record of the call of request a pass made, kept with the record of
\* the last frame: the server's answers and what request returned.
Answered(out, sc) ==
    IF observer # "event"
    THEN call
    ELSE IF out.pushed = <<>>
    THEN NoCall
    ELSE [op |-> "Progress", r1 |-> sc[1], a |-> sc[2], r2 |-> sc[3],
          issued0 |-> issued,
          res |-> request(auth, issued, out.pushed[1], sc[1], sc[2],
                          sc[3]).res]

\* The vectors get_episodes_from_series may return for the frame.
EpisodeOrders(f) ==
    IF f.event = "end-file" /\ f.reason = "eof" /\ item.series_id.some
    THEN get_episodes_from_series(items, item.series_id.v)
    ELSE {<<>>}

\* What the server answers to one call of request: the first send, the
\* re-authentication if there is one, the second send if there is one.
\* The request succeeds, fails in transport, meets a 401 and a refused
\* re-authentication, meets a 401 and succeeds on the second send, meets a 401
\* and fails on the second send.
Scripts ==
    {<<OK, OK, OK>>, <<NetErr, OK, OK>>, <<UNAUTHORIZED, FORBIDDEN, OK>>,
     <<UNAUTHORIZED, OK, OK>>, <<UNAUTHORIZED, OK, UNAUTHORIZED>>}
Quiet == <<OK, OK, OK>>

\* The read loop reads a frame dt ms after the last one and handles it; sc is
\* what the server answers if the frame makes the monitor call request (a
\* frame that makes no request meets no answer).
ReadFrame(f, dt, sc) ==
    /\ mstate = "Observing"
    /\ now + dt <= MaxClock
    /\ (sc[1] = UNAUTHORIZED /\ sc[2] = OK) => issued < MaxTokens
    /\ \E eps \in EpisodeOrders(f) :
          /\ sc # Quiet =>
                loop_body(f, now + dt, last_position, last_update, auth,
                          issued, item, eps, OK, OK, OK).pushed # <<>>
          /\ LET out == loop_body(f, now + dt, last_position, last_update,
                                  auth, issued, item, eps, sc[1], sc[2], sc[3])
             IN  Leave(f, now + dt, out) /\ call' = Answered(out, sc)

\* The read returns 0 bytes (the player closed the socket) or fails: the
\* loop ends.
SocketClosed(dt, sc) ==
    /\ mstate = "Observing"
    /\ now + dt <= MaxClock
    /\ (sc[1] = UNAUTHORIZED /\ sc[2] = OK) => issued < MaxTokens
    /\ LET out == after_loop(last_position, last_update, auth, issued, item,
                              sc[1], sc[2], sc[3])
       IN  Leave(ClosedFrame, now + dt, out) /\ call' = Answered(out, sc)

\* The time a blocking read may take.
Delays == {0, TimeStep}

\* The catalog of one series with the episodes S1E1, S1E2 and S2E1.
ExampleCatalog ==
    <<MediaItem(1, SomeI(1), SomeI(1), SomeI(1)),
      MediaItem(2, SomeI(1), SomeI(1), SomeI(2)),
      MediaItem(3, SomeI(1), SomeI(2), SomeI(1))>>

\* A session that has connected and subscribed: monitor_playback enters its
\* read loop with last_position = 0 and last_update the instant it started.
\* The client holds the token issued last; the server has one more to issue.
Observing(cat, cur, obs) ==
    /\ observer = obs
    /\ phase = "ready"
    /\ auth = MaxTokens - 1
    /\ issued = MaxTokens - 1
    /\ call = NoCall
    /\ wire = <<>>
    /\ items = cat
    /\ mstate = "Observing"
    /\ item = cur
    /\ last_position = 0
    /\ last_update = 0
    /\ now = 0
    /\ result = MRunning
    /\ ev = NoEv
    /\ stream = NoStream
    /\ reported = NoReports
    /\ Elsewhere

InitMon == Observing(ExampleCatalog, ExampleCatalog[1], "event")

NextMon ==
    \/ \E f \in Frames, dt \in Delays, sc \in Scripts : ReadFrame(f, dt, sc)
    \/ \E dt \in Delays, sc \in Scripts : SocketClosed(dt, sc)

\* The session with the record of the last frame kept.
SpecMon == InitMon /\ [][NextMon]_vars

\* The session with the record of its position events kept.
InitStream == Observing(ExampleCatalog, ExampleCatalog[1], "stream")
SpecStream == InitStream /\ [][NextMon]_vars

\* The session with the record of its reports kept.
InitReports == Observing(ExampleCatalog, ExampleCatalog[1], "reports")
SpecReports == InitReports /\ [][NextMon]_vars

\* ------------------------------------------------ the order of the pushes

\* The session with a push in two steps: the pass that reads the frame sends
\* the request, and the request returns when the server has answered.  The
\* record kept: the number of reads, the reads whose push was started, the
\* reads whose push has returned, and whether a push was started while
\* another had not returned.
NoOrder == [reads |-> 0, started |-> <<>>, finished |-> <<>>,
            overlap |-> FALSE]

BlockedOnlyWhenOver(st) == st \notin {"Observing", "Pushing"}

\* reqwest::blocking: send() returns when the response is there, and the
\* loop's thread is the only one; the next read comes after request returned.
Blocked(st) == st # "Observing"

\* Whether the pass for the frame calls request.
Pushes(f, t) ==
    loop_body(f, t, last_position, last_update, auth, issued, item, <<>>,
              OK, OK, OK).pushed # <<>>

InitOrder ==
    /\ observer = "order"
    /\ phase = "ready"
    /\ auth = MaxTokens - 1
    /\ issued = MaxTokens - 1
    /\ call = NoCall
    /\ wire = <<>>
    /\ items = ExampleCatalog
    /\ mstate = "Observing"
    /\ item = ExampleCatalog[1]
    /\ last_position = 0
    /\ last_update = 0
    /\ now = 0
    /\ result = MRunning
    /\ ev = NoEv
    /\ stream = NoOrder
    /\ reported = NoReports
    /\ Elsewhere

\* A pass for a frame that calls no request.
ReadSilent(f, dt) ==
    /\ stream.reads < MaxReads
    /\ ~Pushes(f, now + dt)
    /\ ReadFrame(f, dt, Quiet)

\* A pass for a frame that calls request: the frame is read and the request
\* is sent.
BeginPush(f, dt) ==
    /\ ~Blocked(mstate)
    /\ stream.reads < MaxReads
    /\ now + dt <= MaxClock
    /\ Pushes(f, now + dt)
    /\ mstate' = "Pushing"
    /\ now' = now + dt
    /\ ev' = [frame |-> f, at |-> now + dt, lp0 |-> last_position,
              lu0 |-> last_update, pushed |-> <<>>]
    /\ stream' = [reads |-> stream.reads + 1,
                  started |-> Append(stream.started, stream.reads + 1),
                  finished |-> stream.finished,
                  overlap |-> stream.overlap
                      \/ Len(stream.started) > Len(stream.finished)]
    /\ UNCHANGED <<phase, auth, issued, call, wire, items, item,
                   last_position, last_update, result, observer, reported>>
    /\ UNCHANGED outervars

\* The request returns: the server has answered sc, and the pass ends.
CompletePush(sc) ==
    /\ mstate = "Pushing"
    /\ (sc[1] = UNAUTHORIZED /\ sc[2] = OK) => issued < MaxTokens
    /\ LET out == loop_body(ev.frame, ev.at, last_position, last_update,
                            auth, issued, item, <<>>, sc[1], sc[2], sc[3])
       IN  /\ last_position' = out.last_position
           /\ last_update' = out.last_update
           /\ auth' = out.auth
           /\ issued' = out.issued
           /\ mstate' = IF out.ret = "continue" THEN "Observing"
                        ELSE "Finished"
           /\ result' = IF out.ret = "continue" THEN result ELSE MPanic
           /\ stream' = [stream EXCEPT !.finished =
                            Append(@, stream.started[Len(@) + 1])]
    /\ UNCHANGED <<phase, call, wire, items, item, now, observer, ev,
                   reported>>
    /\ UNCHANGED outervars

NextOrder ==
    \/ \E f \in Frames, dt \in Delays : ReadSilent(f, dt)
    \/ \E f \in Frames, dt \in Delays : BeginPush(f, dt)
    \/ \E sc \in Scripts : CompletePush(sc)
    \/ \E dt \in Delays, sc \in Scripts : SocketClosed(dt, sc)

SpecOrder == InitOrder /\ [][NextOrder]_vars

\* --------------------------------------------------- the bytes of the socket

\* What one socket.read returns: pieces of the player's lines, in order.  A
\* piece is a whole line (the JSON text of a frame and its newline), the
\* head of a line (a proper prefix of the JSON text) or the tail of the line
\* whose head came with the read before.
Piece(f, part) == [frame |-> f, part |-> part]
ChunkFrames == {PauseFrame(TRUE), PositionFrame(MaxPosSteps)}

\* The reads that may follow when the head of the line for pending was read
\* (open), or when the last read ended at the end of a line.
Chunks(open, pending) ==
    IF open
    THEN {<<Piece(pending, "tail")>>}
            \cup {<<Piece(pending, "tail"), Piece(g, "whole")>> :
                     g \in ChunkFrames}
    ELSE {<<Piece(f, "whole")>> : f \in ChunkFrames}
            \cup {<<Piece(f, "head")>> : f \in ChunkFrames}
            \cup {<<Piece(f, "whole"), Piece(g, "whole")>> :
                     f \in ChunkFrames, g \in ChunkFrames}

\* serde_json::from_slice(&buffer[..n]): the bytes read are parsed as ONE
\* JSON value, white space allowed after it.  One whole line parses; two
\* lines are an error (trailing characters), the head or the tail of a line
\* is an error; an error makes the loop continue.
from_slice(chunk) ==
    IF Len(chunk) = 1 /\ chunk[1].part = "whole"
    THEN chunk[1].frame
    ELSE NotJsonFrame

\* The lines the read completes, in order.
Completed(chunk) ==
    LET Ends(p) == p.part \in {"whole", "tail"}
        ended == SelectSeq(chunk, Ends)
    IN  [i \in DOMAIN ended |-> ended[i].frame]

\* The record kept: the number of reads, the lines the player completed,
\* the frames the loop matched on, and the line whose head is read.
NoChunks == [reads |-> 0, written |-> <<>>, dispatched |-> <<>>,
             open |-> FALSE, pending |-> NotJsonFrame]

InitChunks ==
    /\ observer = "chunks"
    /\ phase = "ready"
    /\ auth = MaxTokens - 1
    /\ issued = MaxTokens - 1
    /\ call = NoCall
    /\ wire = <<>>
    /\ items = ExampleCatalog
    /\ mstate = "Observing"
    /\ item = ExampleCatalog[1]
    /\ last_position = 0
    /\ last_update = 0
    /\ now = 0
    /\ result = MRunning
    /\ ev = NoEv
    /\ stream = NoChunks
    /\ reported = NoReports
    /\ Elsewhere

\* One pass of the loop for a read of n > 0 bytes.
ReadChunk(chunk, dt, sc) ==
    /\ mstate = "Observing"
    /\ stream.reads < MaxReads
    /\ now + dt <= MaxClock
    /\ (sc[1] = UNAUTHORIZED /\ sc[2] = OK) => issued < MaxTokens
    /\ LET f == from_slice(chunk)
           t == now + dt
           out == loop_body(f, t, last_position, last_update, auth, issued,
                            item, <<>>, sc[1], sc[2], sc[3])
       IN  /\ sc # Quiet => out.pushed # <<>>
           /\ now' = t
           /\ last_position' = out.last_position
           /\ last_update' = out.last_update
           /\ auth' = out.auth
           /\ issued' = out.issued
           /\ mstate' = IF out.ret = "continue" THEN "Observing"
                        ELSE "Finished"
           /\ result' = IF out.ret = "continue" THEN result ELSE MPanic
           /\ stream' =
                 [reads |-> stream.reads + 1,
                  written |-> stream.written \o Completed(chunk),
                  dispatched |-> IF f = NotJsonFrame THEN stream.dispatched
                                 ELSE Append(stream.dispatched, f),
                  open |-> chunk[Len(chunk)].part = "head",
                  pending |-> IF chunk[Len(chunk)].part = "head"
                              THEN chunk[Len(chunk)].frame
                              ELSE NotJsonFrame]
    /\ UNCHANGED <<phase, call, wire, items, item, observer, ev, reported>>
    /\ UNCHANGED outervars

NextChunks ==
    \/ \E chunk \in Chunks(stream.open, stream.pending), dt \in Delays,
          sc \in Scripts : ReadChunk(chunk, dt, sc)
    \/ \E dt \in Delays, sc \in Scripts : SocketClosed(dt, sc)

SpecChunks == InitChunks /\ [][NextChunks]_vars

\* ---------------------------------------------------- next-episode resolution

\* The catalogs and current items the resolution is checked on: MaxItems
\* items, each in series 1 or in none, with season and episode numbers 1, 2
\* or None; the item played is item 1.
IndexOptions == {NoneI, SomeI(1), SomeI(2)}
SeriesOptions == {NoneI, SomeI(1)}
ItemIds == 1..MaxItems
Catalogs ==
    {[k \in ItemIds |-> MediaItem(k, f[k][1], f[k][2], f[k][3])] :
        f \in [ItemIds -> SeriesOptions \X IndexOptions \X IndexOptions]}

InitNext == \E cat \in Catalogs : Observing(cat, cat[1], "none")

\* The player reports the end of the stream.
EndOfStream == ReadFrame(EndFileFrame("eof"), 0, Quiet)

NextNext == EndOfStream

SpecNext == InitNext /\ [][NextNext]_vars

\* ------------------------------------------------------ the frames dispatch

\* The session reading every shape of frame.
InitFrames == Observing(ExampleCatalog, ExampleCatalog[1], "event")

NextFrames ==
    \/ \E f \in Frames \cup MalformedFrames, dt \in Delays, sc \in Scripts :
          ReadFrame(f, dt, sc)
    \/ \E dt \in Delays, sc \in Scripts : SocketClosed(dt, sc)

SpecFrames == InitFrames /\ [][NextFrames]_vars

\* The end-file frames whose "reason" is not the string "eof": another
\* reason, no "reason", a "reason" that is not a string.
OtherReasons == {"quit", "stop", "error", "<absent>", "<not a string>"}
OtherEndFiles == {EndFileFrame(r) : r \in OtherReasons}

\* The episode orders for an end-file frame of any reason.
AnyEndFile(f) ==
    IF f.event = "end-file" /\ item.series_id.some
    THEN get_episodes_from_series(items, item.series_id.v)
    ELSE {<<>>}

\* A pass of the loop for an end-file frame whose reason is not "eof".
ReadOtherEndFile(f, dt) ==
    /\ mstate = "Observing"
    /\ now + dt <= MaxClock
    /\ \E eps \in AnyEndFile(f) :
          LET out == loop_body(f, now + dt, last_position, last_update, auth,
                               issued, item, eps, OK, OK, OK)
          IN  Leave(f, now + dt, out) /\ call' = Answered(out, Quiet)

InitEndFile == Observing(ExampleCatalog, ExampleCatalog[1], "event")

NextEndFile ==
    \/ \E f \in Frames, dt \in Delays, sc \in Scripts : ReadFrame(f, dt, sc)
    \/ \E f \in OtherEndFiles, dt \in Delays : ReadOtherEndFile(f, dt)
    \/ \E dt \in Delays, sc \in Scripts : SocketClosed(dt, sc)

SpecEndFile == InitEndFile /\ [][NextEndFile]_vars

\* --------------------------------------------------------------- play_media

\* let timeout = Duration::from_secs(10); let retry_delay =
\* Duration::from_millis(50).
ConnectTimeoutSecs == 10
RetryDelayMs == 50

\* The socket file of the session: no file, a file nobody listens on (a
\* connect is refused), or the file the player listens on.
SocketFiles == {"absent", "stale", "listening"}

\* One turn of the connect loop: UnixStream::connect succeeds and the loop
\* breaks, or it fails and the function returns Ok(None) when the timeout
\* has elapsed since last_update, and sleeps retry_delay otherwise.
connect_turn(socket, elapsed) ==
    IF socket = "listening" THEN "break"
    ELSE IF elapsed >= ConnectTimeoutSecs * MsPerSec THEN "return"
    ELSE "sleep"

remove_file_kept(socket) == [res |-> Ok("unit"), socket |-> socket]

\* std::fs::remove_file: the file is removed, or there is none to remove.
remove_file(socket) ==
    IF socket = "absent"
    THEN [res |-> Err("remove_file"), socket |-> socket]
    ELSE [res |-> Ok("unit"), socket |-> "absent"]

\* The catalog of the example series and a movie.
Movie == MediaItem(4, NoneI, NoneI, NoneI)
PlayCatalog == ExampleCatalog \o <<Movie>>

\* play_media has spawned the player, registered its handle and slept; it
\* calls monitor_playback, which sets last_position and last_update.  The
\* player may have bound its socket already, and a file may be left from an
\* earlier session.
InitPlay ==
    /\ observer = "event"
    /\ phase = "ready"
    /\ auth = MaxTokens - 1
    /\ issued = MaxTokens - 1
    /\ call = NoCall
    /\ wire = <<>>
    /\ items = PlayCatalog
    /\ mstate = "Connecting"
    /\ item \in {ExampleCatalog[1], Movie}
    /\ last_position = 0
    /\ last_update = 0
    /\ now = 0
    /\ result = MRunning
    /\ ev = NoEv
    /\ stream = NoStream
    /\ reported = NoReports
    /\ \E sf \in SocketFiles :
          play = [pc |-> "monitoring", socket |-> sf, exit |-> "none",
                  attempts |-> 0, sent |-> <<>>]
    /\ mpv_processes = <<1>>
    /\ children = <<"running">>
    /\ cleanup_log = NoCleanup
    /\ app = NoApp
    /\ cache_file = AbsentFile
    /\ server_items = <<>>
    /\ returned = NoReturn

\* One turn of the connect loop.
ConnectAttempt ==
    /\ mstate = "Connecting"
    /\ LET turn == connect_turn(play.socket, now - last_update)
       IN  /\ mstate' = IF turn = "break" THEN "Subscribing"
                         ELSE IF turn = "return" THEN "Finished"
                         ELSE "Connecting"
           /\ result' = IF turn = "return" THEN MOk(NoneItem) ELSE result
           /\ now' = IF turn = "sleep" THEN now + RetryDelayMs ELSE now
           /\ play' = [play EXCEPT
                          !.attempts = @ + 1,
                          !.exit = IF turn = "return" THEN "connect timeout"
                                   ELSE @]
    /\ UNCHANGED <<phase, auth, issued, call, wire, items, item,
                   last_position, last_update, observer, ev, stream, reported,
                   mpv_processes, children, cleanup_log, app, cache_file,
                   server_items, returned>>

\* The player binds its socket while the monitor tries to connect (at one of
\* the instants 0, TimeStep, 2 * TimeStep ... after the monitor started).
PlayerBinds ==
    /\ mstate = "Connecting"
    /\ play.socket # "listening"
    /\ now % TimeStep = 0
    /\ play' = [play EXCEPT !.socket = "listening"]
    /\ UNCHANGED <<phase, auth, issued, call, wire, items, mstate, item,
                   last_position, last_update, now, result, observer, ev,
                   stream, reported, mpv_processes, children, cleanup_log,
                   app, cache_file, server_items, returned>>

\* The byte string of the subscription: three lines, each the command
\* ["observe_property", tag, name].
observe_property(tag, name) ==
    [command |-> "observe_property", tag |-> tag, name |-> name]
Commands ==
    <<observe_property(1, "playback-time"), observe_property(2, "pause"),
      observe_property(3, "eof-reached")>>

write_all_once(cmds, n) ==
    [res |-> IF n > 0 THEN Ok("unit") ELSE Err("write"),
     sent |-> SubSeq(cmds, 1, n)]

\* socket.write_all: Ok when the socket took every line; n is the number of
\* lines it took before the write failed.
write_all(cmds, n) ==
    [res |-> IF n = Len(cmds) THEN Ok("unit") ELSE Err("write"),
     sent |-> SubSeq(cmds, 1, n)]

\* The three observe_property commands are written; a failure of write_all
\* is printed and the function returns Ok(None).
Subscribe(n) ==
    /\ mstate = "Subscribing"
    /\ LET w == write_all(Commands, n)
           written == w.res.tag = "Ok"
       IN  /\ mstate' = IF written THEN "Observing" ELSE "Finished"
           /\ result' = IF written THEN result ELSE MOk(NoneItem)
           /\ play' = [play EXCEPT
                          !.sent = w.sent,
                          !.exit = IF written THEN @ ELSE "subscribe write"]
    /\ UNCHANGED <<phase, auth, issued, call, wire, items, item,
                   last_position, last_update, now, observer, ev, stream,
                   reported, mpv_processes, children, cleanup_log, app,
                   cache_file, server_items, returned>>

\* monitor_playback has returned: play_media removes the socket file with
\* "?" and returns what the monitor returned.
RemoveSocketFile ==
    /\ play.pc = "monitoring"
    /\ mstate = "Finished"
    /\ result.tag = "Ok"
    /\ LET rm == remove_file(play.socket)
       IN  /\ play' = [play EXCEPT !.pc = "returned", !.socket = rm.socket]
           /\ returned' = [op |-> "play_media",
                           res |-> IF rm.res.tag = "Ok" THEN result
                                   ELSE rm.res]
    /\ UNCHANGED <<phase, auth, issued, call, wire, items, mstate, item,
                   last_position, last_update, now, result, observer, ev,
                   stream, reported, mpv_processes, children, cleanup_log,
                   app, cache_file, server_items>>

NextPlay ==
    \/ ConnectAttempt
    \/ PlayerBinds
    \/ \E n \in 0..Len(Commands) : Subscribe(n)
    \/ \E f \in Frames, dt \in Delays, sc \in Scripts : ReadFrame(f, dt, sc)
    \/ \E dt \in Delays, sc \in Scripts : SocketClosed(dt, sc)
    \/ RemoveSocketFile

SpecPlay == InitPlay /\ [][NextPlay]_vars

\* ------------------------------------------------- the spawn of the player

register_after_monitoring(reg, h) == reg

\* self.mpv_processes.lock().unwrap().push(child)
register(reg, h) == Append(reg, h)

\* play_media has made its requests and built the command; an earlier
\* session may have left its player in the registry and its socket file.
InitSpawn ==
    /\ observer = "event"
    /\ phase = "ready"
    /\ auth = MaxTokens - 1
    /\ issued = MaxTokens - 1
    /\ call = NoCall
    /\ wire = <<>>
    /\ items = PlayCatalog
    /\ mstate = "Idle"
    /\ item = ExampleCatalog[1]
    /\ last_position = 0
    /\ last_update = 0
    /\ now = 0
    /\ result = MRunning
    /\ ev = NoEv
    /\ stream = NoStream
    /\ reported = NoReports
    /\ \E sf \in {"absent", "stale"} :
          play = [pc |-> "spawning", socket |-> sf, exit |-> "none",
                  attempts |-> 0, sent |-> <<>>]
    /\ \E earlier \in {<<>>, <<"running">>, <<"exited">>} :
          /\ children = earlier
          /\ mpv_processes = [i \in DOMAIN earlier |-> i]
    /\ cleanup_log = NoCleanup
    /\ app = NoApp
    /\ cache_file = AbsentFile
    /\ server_items = <<>>
    /\ returned = NoReturn

\* command.stdout(..).stderr(..).spawn()?: the child runs, or play_media
\* returns the error.
SpawnMpv(spawned) ==
    /\ play.pc = "spawning"
    /\ IF spawned
       THEN /\ children' = Append(children, "running")
            /\ play' = [play EXCEPT !.pc = "registering"]
            /\ UNCHANGED returned
       ELSE /\ play' = [play EXCEPT !.pc = "returned"]
            /\ returned' = [op |-> "play_media", res |-> Err("spawn")]
            /\ UNCHANGED children
    /\ UNCHANGED <<reqvars, monvars, mpv_processes, cleanup_log, app,
                   cache_file, server_items>>

\* The handle is pushed to the registry; after the sleep of two seconds
\* monitor_playback starts: last_position = 0, last_update = now.
RegisterAndMonitor ==
    /\ play.pc = "registering"
    /\ mpv_processes' = register(mpv_processes, Len(children))
    /\ play' = [play EXCEPT !.pc = "monitoring"]
    /\ mstate' = "Connecting"
    /\ last_position' = 0
    /\ last_update' = now
    /\ UNCHANGED <<reqvars, items, item, now, result, observer, ev, stream,
                   reported, children, cleanup_log, app, cache_file,
                   server_items, returned>>

\* The player spawned exits by itself.
MpvExits ==
    /\ play.pc \in {"registering", "monitoring", "returned"}
    /\ returned.res.tag = "Ok"
    /\ children[Len(children)] = "running"
    /\ children' = [children EXCEPT ![Len(children)] = "exited"]
    /\ UNCHANGED <<reqvars, monvars, play, mpv_processes, cleanup_log, app,
                   cache_file, server_items, returned>>

\* The frames and the server's answers of the session after the spawn.
SpawnFrames == {PauseFrame(TRUE), PositionFrame(MaxPosSteps), EndFileFrame("eof")}
SpawnScripts == {Quiet, <<NetErr, OK, OK>>}

NextSpawn ==
    \/ \E spawned \in BOOLEAN : SpawnMpv(spawned)
    \/ RegisterAndMonitor
    \/ MpvExits
    \/ ConnectAttempt
    \/ PlayerBinds
    \/ \E n \in 0..Len(Commands) : Subscribe(n)
    \/ \E f \in SpawnFrames, sc \in SpawnScripts : ReadFrame(f, TimeStep, sc)
    \/ \E sc \in SpawnScripts : SocketClosed(TimeStep, sc)
    \/ RemoveSocketFile

SpecSpawn == InitSpawn /\ [][NextSpawn]_vars

\* The way the session ended.
ExitPath ==
    IF play.exit # "none" THEN play.exit
    ELSE IF mstate # "Finished" THEN "none"
    ELSE IF ev.frame = ClosedFrame THEN "socket closed"
    ELSE IF result.tag = "Panic" THEN "panic"
    ELSE "end of stream"

\* ------------------------------------------------------ the process registry

\* What Child::kill and Child::wait do for one handle in one call of cleanup.
Outcomes == {"ok", "kill fails", "wait fails"}

\* The handles of a registry.
Handles(reg) == {reg[i] : i \in 1..Len(reg)}

\* What cleanup leaves: its result, the registry, the processes, and the
\* handles it called kill and wait on and those it terminated.
Swept(res, reg, ch, kills, waits, terminated) ==
    [res |-> res, registry |-> reg, children |-> ch, kills |-> kills,
     waits |-> waits, terminated |-> terminated]

\* The for loop of cleanup from the i-th handle on: kill()? and wait()? for
\* each handle in order, an error of either returned at once; after the
\* loop the registry is cleared.  A process that has exited is not
\* terminated again by kill.
RECURSIVE cleanup_from(_, _, _, _, _)
cleanup_from(i, reg, ch, outcome, acc) ==
    IF i > Len(reg)
    THEN Swept(Ok("unit"), <<>>, ch, acc.kills, acc.waits, acc.terminated)
    ELSE LET h == reg[i]
             kills == acc.kills \cup {h}
         IN  IF outcome[h] = "kill fails"
             THEN Swept(Err("kill"), reg, ch, kills, acc.waits,
                        acc.terminated)
             ELSE LET terminated == IF ch[h] = "running"
                                    THEN acc.terminated \cup {h}
                                    ELSE acc.terminated
                      killed == [ch EXCEPT ![h] = IF @ = "running"
                                                  THEN "exited" ELSE @]
                      waits == acc.waits \cup {h}
                  IN  IF outcome[h] = "wait fails"
                      THEN Swept(Err("wait"), reg, killed, kills, waits,
                                 terminated)
                      ELSE cleanup_from(i + 1, reg,
                                        [killed EXCEPT ![h] = "reaped"],
                                        outcome,
                                        [kills |-> kills, waits |-> waits,
                                         terminated |-> terminated])

\* Jellyfin::cleanup.  The lock is taken for the whole call; it is never
\* poisoned, since no holder of it panics.
cleanup(reg, ch, outcome) ==
    cleanup_from(1, reg, ch, outcome,
                 [kills |-> {}, waits |-> {}, terminated |-> {}])

\* The record of a call of cleanup.
CleanupRecord(out, reg, again) ==
    [called |-> TRUE, again |-> again, res |-> out.res, before |-> reg,
     kills |-> out.kills, waits |-> out.waits, terminated |-> out.terminated]

\* A client that has authenticated, with no player spawned.
RegistryReady ==
    /\ phase = "ready"
    /\ auth = 1
    /\ issued = 1
    /\ call = NoCall
    /\ wire = <<>>
    /\ MonitorIdle
    /\ play = NoPlay
    /\ mpv_processes = <<>>
    /\ children = <<>>
    /\ cleanup_log = NoCleanup
    /\ cache_file = AbsentFile
    /\ server_items = <<>>
    /\ returned = NoReturn

InitRegistry == RegistryReady /\ app = NoApp

\* play_media spawns a player and appends its handle to the registry.
SpawnPlayer ==
    /\ Len(children) < MaxChildren
    /\ children' = Append(children, "running")
    /\ mpv_processes' = Append(mpv_processes, Len(children) + 1)
    /\ returned' = [op |-> "spawn", res |-> Ok("unit")]
    /\ UNCHANGED <<reqvars, monvars, play, cleanup_log, app, cache_file,
                   server_items>>

\* A player exits by itself (the user quits it, the stream ends).
PlayerExits(h) ==
    /\ children[h] = "running"
    /\ children' = [children EXCEPT ![h] = "exited"]
    /\ UNCHANGED <<reqvars, monvars, play, mpv_processes, cleanup_log, app,
                   cache_file, server_items, returned>>

\* A call of cleanup.
Cleanup(outcome) ==
    /\ LET out == cleanup(mpv_processes, children, outcome)
       IN  /\ mpv_processes' = out.registry
           /\ children' = out.children
           /\ cleanup_log' = CleanupRecord(out, mpv_processes,
                                           returned.op = "cleanup")
           /\ returned' = [op |-> "cleanup", res |-> out.res]
    /\ UNCHANGED <<reqvars, monvars, play, app, cache_file, server_items>>

NextRegistry ==
    \/ SpawnPlayer
    \/ \E h \in DOMAIN children : PlayerExits(h)
    \/ \E outcome \in [DOMAIN children -> Outcomes] : Cleanup(outcome)

SpecRegistry == InitRegistry /\ [][NextRegistry]_vars

\* -------------------------------------------------------------- the run loop

\* What a call of play_media does, seen from the run loop: a request before
\* the spawn fails, the spawn fails, it returns Ok(None) after a session, it
\* returns Ok(Some(next)) after a session that found a next episode, the
\* removal of the socket file fails after a session, the monitor panics.
PlayOutcomes ==
    {"request fails", "spawn fails", "ok", "ok, next item",
     "remove_file fails", "panic"}
Spawning == {"ok", "ok, next item", "remove_file fails", "panic"}

\* What the key read by handle_input does: event::read fails, the key quits
\* (Ctrl-C, or Esc in the main list), Enter on an item that is not a series,
\* F5 or Ctrl-R, any other key.
Keys == {"read fails", "quit", "play", "refresh", "other"}

\* The run loop has entered: raw mode is on, nothing is drawn yet.
InitApp ==
    /\ RegistryReady
    /\ app = [pc |-> "draw", current_action |-> "None",
              cleanup_called |-> FALSE]

\* run returns res.
RunReturns(res) ==
    /\ app' = [app EXCEPT !.pc = "returned"]
    /\ returned' = [op |-> "run", res |-> res]

\* self.draw(terminal, &render_outer)?
Draw(drawn) ==
    /\ app.pc = "draw"
    /\ IF drawn
       THEN app' = [app EXCEPT !.pc = "handle_action"] /\ UNCHANGED returned
       ELSE RunReturns(Err("draw"))
    /\ UNCHANGED <<reqvars, monvars, play, mpv_processes, children,
                   cleanup_log, cache_file, server_items>>

\* self.handle_action().await? with no action pending: Ok(false), the loop
\* goes on to handle_input.
HandleNoAction ==
    /\ app.pc = "handle_action"
    /\ app.current_action = "None"
    /\ app' = [app EXCEPT !.pc = "handle_input"]
    /\ UNCHANGED <<reqvars, monvars, play, mpv_processes, children,
                   cleanup_log, cache_file, server_items, returned>>

\* self.handle_action().await? with NowPlaying: play_media(item)?, its value
\* dropped by the ";", then the pending input is drained (poll and read with
\* "?"), the action is reset and the loop continues.  The player spawned is
\* left running or has exited.
HandleNowPlaying(outcome, status, drained) ==
    /\ app.pc = "handle_action"
    /\ app.current_action = "NowPlaying"
    /\ IF outcome \in Spawning
       THEN /\ children' = Append(children, status)
            /\ mpv_processes' = Append(mpv_processes, Len(children) + 1)
       ELSE UNCHANGED <<children, mpv_processes>>
    /\ IF outcome = "panic"
       THEN app' = [app EXCEPT !.pc = "panicked"] /\ UNCHANGED returned
       ELSE IF outcome \notin {"ok", "ok, next item"}
       THEN RunReturns(Err("play_media"))
       ELSE IF ~drained
       THEN RunReturns(Err("poll"))
       ELSE /\ app' = [app EXCEPT !.pc = "draw", !.current_action = "None"]
            /\ returned' = [op |-> "play_media",
                            res |-> MOk(IF outcome = "ok" THEN NoneItem
                                        ELSE SomeItem(ExampleCatalog[2]))]
    /\ UNCHANGED <<reqvars, monvars, play, cleanup_log, cache_file,
                   server_items>>

\* self.handle_action().await? with RefreshingCache: refresh_cache()?, then
\* as above.
HandleRefreshingCache(refreshed, drained) ==
    /\ app.pc = "handle_action"
    /\ app.current_action = "RefreshingCache"
    /\ IF ~refreshed
       THEN RunReturns(Err("refresh_cache"))
       ELSE IF ~drained
       THEN RunReturns(Err("poll"))
       ELSE /\ app' = [app EXCEPT !.pc = "draw", !.current_action = "None"]
            /\ UNCHANGED returned
    /\ UNCHANGED <<reqvars, monvars, play, mpv_processes, children,
                   cleanup_log, cache_file, server_items>>

\* self.handle_input()?: Ok(false) breaks the loop, Ok(true) goes on.
HandleInput(key) ==
    /\ app.pc = "handle_input"
    /\ key = "play" => Len(children) < MaxChildren
    /\ IF key = "read fails"
       THEN RunReturns(Err("read"))
       ELSE /\ app' = [app EXCEPT
                          !.pc = IF key = "quit" THEN "cleanup" ELSE "draw",
                          !.current_action =
                              IF key = "play" THEN "NowPlaying"
                              ELSE IF key = "refresh" THEN "RefreshingCache"
                              ELSE @]
            /\ UNCHANGED returned
    /\ UNCHANGED <<reqvars, monvars, play, mpv_processes, children,
                   cleanup_log, cache_file, server_items>>

\* After the loop: self.jellyfin.cleanup()?; Ok(()).
RunCleanup(outcome) ==
    /\ app.pc = "cleanup"
    /\ LET out == cleanup(mpv_processes, children, outcome)
       IN  /\ mpv_processes' = out.registry
           /\ children' = out.children
           /\ cleanup_log' = CleanupRecord(out, mpv_processes, FALSE)
           /\ returned' = [op |-> "run", res |-> out.res]
    /\ app' = [app EXCEPT !.pc = "returned", !.cleanup_called = TRUE]
    /\ UNCHANGED <<reqvars, monvars, play, cache_file, server_items>>

NextApp ==
    \/ \E drawn \in BOOLEAN : Draw(drawn)
    \/ HandleNoAction
    \/ \E outcome \in PlayOutcomes, status \in {"running", "exited"},
          drained \in BOOLEAN : HandleNowPlaying(outcome, status, drained)
    \/ \E refreshed \in BOOLEAN, drained \in BOOLEAN :
          HandleRefreshingCache(refreshed, drained)
    \/ \E key \in Keys : HandleInput(key)
    \/ \E outcome \in [DOMAIN children -> Outcomes] : RunCleanup(outcome)

SpecApp == InitApp /\ [][NextApp]_vars

\* ----------------------------------------------------------- the catalog cache

\* JSON: null or a number (an Option field of MediaItem, serialized).
JNull == [null |-> TRUE, n |-> 0]
JNum(x) == [null |-> FALSE, n |-> x]
serialize_option(o) == IF o.some THEN JNum(o.v) ELSE JNull
deserialize_option(j) == IF j.null THEN NoneI ELSE SomeI(j.n)

\* MediaItem as a JSON object, under the names of its serde(rename)
\* attributes, and back.
serialize_item(e) ==
    [Id |-> e.id, SeriesId |-> serialize_option(e.series_id),
     ParentIndexNumber |-> serialize_option(e.parent_index_number),
     IndexNumber |-> serialize_option(e.index_number)]
deserialize_item_without_series(j) ==
    MediaItem(j.Id, NoneI, deserialize_option(j.ParentIndexNumber),
              deserialize_option(j.IndexNumber))
deserialize_item(j) ==
    MediaItem(j.Id, deserialize_option(j.SeriesId),
              deserialize_option(j.ParentIndexNumber),
              deserialize_option(j.IndexNumber))

\* The cache file: none, a text that does not parse as a map of items, or
\* the JSON object of a map, identifier -> item.
GarbageFile == [kind |-> "garbage", entries |-> <<>>]
to_string(map) ==
    [kind |-> "json",
     entries |-> [k \in DOMAIN map |-> serialize_item(map[k])]]

\* fs::read_to_string and serde_json::from_str::<HashMap<String, MediaItem>>.
from_str(file) ==
    IF file.kind = "json"
    THEN Ok([k \in DOMAIN file.entries |-> deserialize_item(file.entries[k])])
    ELSE Err("cache")

\* .into_iter().map(|item| (item.id.clone(), item)).collect(): the items by
\* identifier, the last one of an identifier kept.
collect(list) ==
    [k \in {list[i].id : i \in 1..Len(list)} |->
        list[CHOOSE i \in 1..Len(list) :
                /\ list[i].id = k
                /\ \A j \in 1..Len(list) : list[j].id = k => j <= i]]

\* What fetch_all_media leaves: its result, the catalog in memory, the cache
\* file, the credentials, the messages sent.
Fetched(res, its, file, tok, iss, sent) ==
    [res |-> res, items |-> its, cache_file |-> file, auth |-> tok,
     issued |-> iss, wire |-> sent]

\* What fs::write does: the file is written, cannot be created (and stays
\* as it was), or is truncated and not written in full.
Writes == {"written", "not created", "truncated"}
Bodies == {"items", "unparsable"}

fetch_all_media_anyway(file, its, tok, iss, server, r1, a, r2, body, written) ==
    LET out == request(tok, iss, "Items", r1, a, r2)
    IN  IF out.res.tag = "Ok" /\ out.res.val = OK /\ body = "items"
        THEN Fetched(Ok("unit"), collect(server), to_string(collect(server)),
                     out.auth, out.issued, out.wire)
        ELSE Fetched(Err("request"), its, file, out.auth, out.issued,
                     out.wire)

fetch_all_media_strict(file, its, tok, iss, server, r1, a, r2, body, written) ==
    IF file.kind = "garbage"
    THEN Fetched(Err("cache"), its, file, tok, iss, <<>>)
    ELSE IF file.kind = "json"
    THEN Fetched(Ok("unit"), from_str(file).val, file, tok, iss, <<>>)
    ELSE fetch_all_media_anyway(file, its, tok, iss, server, r1, a, r2, body,
                                written)

fetch_all_media_clearing(file, its, tok, iss, server, r1, a, r2, body, written) ==
    LET f == fetch_all_media_anyway(file, its, tok, iss, server, r1, a, r2,
                                    body, written)
    IN  IF f.res.tag = "Err"
        THEN [f EXCEPT !.items = <<>>, !.cache_file = to_string(<<>>)]
        ELSE f

\* fetch_all_media: a cache file that reads and parses is the catalog, with
\* no request; otherwise the Items query, with "?" on request and on the
\* parse of the body, the catalog assigned, and the cache file written with
\* "?".
fetch_all_media(file, its, tok, iss, server, r1, a, r2, body, written) ==
    LET cached == from_str(file)
    IN  IF cached.tag = "Ok"
        THEN Fetched(Ok("unit"), cached.val, file, tok, iss, <<>>)
        ELSE LET out == request(tok, iss, "Items", r1, a, r2)
             IN  IF out.res.tag # "Ok"
                 THEN Fetched(out.res, its, file, out.auth, out.issued,
                              out.wire)
                 ELSE IF out.res.val # OK \/ body # "items"
                 THEN Fetched(Err("json"), its, file, out.auth, out.issued,
                              out.wire)
                 ELSE LET new == collect(server)
                      IN  IF written = "written"
                          THEN Fetched(Ok("unit"), new, to_string(new),
                                       out.auth, out.issued, out.wire)
                          ELSE Fetched(Err("write"), new,
                                       IF written = "truncated"
                                       THEN GarbageFile ELSE file,
                                       out.auth, out.issued, out.wire)

\* The items an identifier may stand for, the maps of identifiers to items,
\* and the lists of items (in the order of the identifiers) the server
\* answers the Items query with.
CachedIds == 1..MaxCached
ItemsOf(id) ==
    {MediaItem(id, NoneI, NoneI, NoneI),
     MediaItem(id, SomeI(1), SomeI(1), SomeI(id))}
Mappings ==
    UNION {{m \in [D -> UNION {ItemsOf(id) : id \in CachedIds}] :
                \A k \in D : m[k].id = k} : D \in SUBSET CachedIds}
ListOf(m) ==
    [i \in 1..Cardinality(DOMAIN m) |->
        m[CHOOSE k \in DOMAIN m :
              Cardinality({j \in DOMAIN m : j < k}) = i - 1]]
ServerLists == {ListOf(m) : m \in Mappings}
CacheFiles == {AbsentFile, GarbageFile} \cup {to_string(m) : m \in Mappings}

\* Jellyfin::new has authenticated; the cache file and the server hold
\* whatever they hold.
InitCache ==
    /\ phase = "ready"
    /\ auth = 1
    /\ issued = 1
    /\ call = NoCall
    /\ wire = <<>>
    /\ MonitorIdle
    /\ play = NoPlay
    /\ mpv_processes = <<>>
    /\ children = <<>>
    /\ cleanup_log = NoCleanup
    /\ app = NoApp
    /\ cache_file \in CacheFiles
    /\ server_items \in ServerLists
    /\ returned = NoReturn

\* A call of fetch_all_media.
FetchAllMedia(r1, a, r2, body, written) ==
    /\ phase = "ready"
    /\ (r1 = UNAUTHORIZED /\ a = OK) => issued < MaxTokens
    /\ LET out == fetch_all_media(cache_file, items, auth, issued,
                                  server_items, r1, a, r2, body, written)
       IN  /\ items' = out.items
           /\ cache_file' = out.cache_file
           /\ auth' = out.auth
           /\ issued' = out.issued
           /\ wire' = out.wire
           /\ returned' = [op |-> "fetch_all_media", res |-> out.res]
    /\ UNCHANGED <<phase, call, mstate, item, last_position, last_update,
                   now, result, observer, ev, stream, reported, play,
                   mpv_processes, children, cleanup_log, app, server_items>>

\* What the server answers to the Items query: as for a telemetry call, or
\* a response of a status other than 200.
FetchScripts == Scripts \cup {<<SERVER_ERROR, OK, OK>>}

NextCache ==
    \E sc \in FetchScripts, body \in Bodies, written \in Writes :
        FetchAllMedia(sc[1], sc[2], sc[3], body, written)

SpecCache == InitCache /\ [][NextCache]_vars

\* ------------------------------------------------------------ refresh_cache

\* fetch_home_sections: the requests Resume, NextUp and Items (latest), each
\* with "?" on request and on the parse of the body; sc is what the server
\* answers to the first, the others are answered 200.  (The three lists it
\* assigns are not part of the model.)
fetch_home_sections(tok, iss, sc) ==
    LET first == request(tok, iss, "Resume", sc[1], sc[2], sc[3])
    IN  IF first.res.tag # "Ok"
        THEN [res |-> first.res, auth |-> first.auth, issued |-> first.issued,
              wire |-> first.wire]
        ELSE IF first.res.val # OK
        THEN [res |-> Err("json"), auth |-> first.auth,
              issued |-> first.issued, wire |-> first.wire]
        ELSE [res |-> Ok("unit"), auth |-> first.auth,
              issued |-> first.issued,
              wire |-> first.wire
                  \o <<Send("NextUp", first.auth, OK),
                       Send("Latest", first.auth, OK)>>]

\* What refresh_cache leaves: as fetch_all_media, and the calls it made.
Refreshed(res, its, file, tok, iss, sent, did) ==
    [res |-> res, items |-> its, cache_file |-> file, auth |-> tok,
     issued |-> iss, wire |-> sent, did |-> did]

refresh_cache_keeping(file, its, tok, iss, server, sc, body, written, hs) ==
    LET f == fetch_all_media(file, its, tok, iss, server, sc[1], sc[2],
                             sc[3], body, written)
    IN  Refreshed(f.res, f.items, f.cache_file, f.auth, f.issued, f.wire,
                  <<"remove_file", "fetch_all_media", "fetch_home_sections">>)

\* refresh_cache: fs::remove_file(&self.cache_path)?, self.fetch_all_media()?,
\* self.fetch_home_sections()?.
refresh_cache(file, its, tok, iss, server, sc, body, written, hs) ==
    IF file.kind = "absent"
    THEN Refreshed(Err("remove_file"), its, file, tok, iss, <<>>,
                   <<"remove_file">>)
    ELSE LET f == fetch_all_media(AbsentFile, its, tok, iss, server, sc[1],
                                  sc[2], sc[3], body, written)
         IN  IF f.res.tag # "Ok"
             THEN Refreshed(f.res, f.items, f.cache_file, f.auth, f.issued,
                            f.wire, <<"remove_file", "fetch_all_media">>)
             ELSE LET h == fetch_home_sections(f.auth, f.issued, hs)
                  IN  Refreshed(h.res, f.items, f.cache_file, h.auth,
                                h.issued, f.wire \o h.wire,
                                <<"remove_file", "fetch_all_media",
                                  "fetch_home_sections">>)

\* The number of re-authentications the server's answers lead to.
Renewals(sc) == IF sc[1] = UNAUTHORIZED /\ sc[2] = OK THEN 1 ELSE 0

\* A call of refresh_cache.
RefreshCache(sc, body, written, hs) ==
    /\ phase = "ready"
    /\ issued + Renewals(sc) + Renewals(hs) <= MaxTokens
    /\ \E out \in {refresh_cache(cache_file, items, auth, issued, server_items,
                                 sc, body, written, hs)} :
           /\ items' = out.items
           /\ cache_file' = out.cache_file
           /\ auth' = out.auth
           /\ issued' = out.issued
           /\ wire' = out.wire
           /\ returned' = [op |-> "refresh_cache", res |-> out.res,
                           did |-> out.did]
    /\ UNCHANGED <<phase, call, mstate, item, last_position, last_update,
                   now, result, observer, ev, stream, reported, play,
                   mpv_processes, children, cleanup_log, app, server_items>>

\* What the server answers to the first request of fetch_home_sections.
HomeScripts == {Quiet, <<NetErr, OK, OK>>, <<SERVER_ERROR, OK, OK>>}

\* What a refresh meets: the server's answers to the Items request, the
\* body of the answer, the write of the file, the answers to the Resume
\* request.  Every failure of one step with the other steps succeeding, and
\* a renewal of the token in both fetches.
RefreshRuns ==
    {<<sc, "items", "written", Quiet>> : sc \in FetchScripts}
        \cup {<<Quiet, "unparsable", "written", Quiet>>}
        \cup {<<Quiet, "items", w, Quiet>> : w \in Writes}
        \cup {<<Quiet, "items", "written", hs>> : hs \in HomeScripts}
        \cup {<<<<UNAUTHORIZED, OK, OK>>, "items", "written",
                <<SERVER_ERROR, OK, OK>>>>}

NextRefresh ==
    \/ \E sc \in FetchScripts :
          FetchAllMedia(sc[1], sc[2], sc[3], "items", "written")
    \/ \E run \in RefreshRuns :
          RefreshCache(run[1], run[2], run[3], run[4])

SpecRefresh == InitCache /\ [][NextRefresh]_vars

\* ---------------------------------------------------------------- startup

after_authenticate_lenient(res) == "authenticated"

\* Jellyfin::new after authenticate: Ok goes on, every Err ends in
\* std::process::exit(1) or in the return of an error.
after_authenticate(res) == IF res.tag = "Ok" THEN "authenticated" ELSE "exited"

\* Jellyfin::new has built the client: no credentials, a cache file of an
\* earlier run or none.
InitStartup ==
    /\ phase = "new"
    /\ auth = 0
    /\ issued = 0
    /\ call = NoCall
    /\ wire = <<>>
    /\ MonitorIdle
    /\ play = NoPlay
    /\ mpv_processes = <<>>
    /\ children = <<>>
    /\ cleanup_log = NoCleanup
    /\ app = NoApp
    /\ server_items \in {<<>>, <<Movie>>}
    /\ cache_file \in {AbsentFile, GarbageFile, to_string(collect(<<Movie>>))}
    /\ returned = NoReturn

\* jellyfin.authenticate() in Jellyfin::new.
StartAuthenticate(a) ==
    /\ phase = "new"
    /\ \E au \in {authenticate(auth, issued, a)} :
          /\ auth' = au.auth
          /\ issued' = au.issued
          /\ wire' = au.wire
          /\ phase' = after_authenticate(au.res)
          /\ returned' = [op |-> "authenticate", res |-> au.res]
    /\ UNCHANGED <<call, monvars, play, mpv_processes, children, cleanup_log,
                   app, cache_file, server_items>>

\* jellyfin.fetch_all_media()? in Jellyfin::new.
StartFetchAllMedia(sc, body, written) ==
    /\ phase = "authenticated"
    /\ issued + Renewals(sc) <= MaxTokens
    /\ \E out \in {fetch_all_media(cache_file, items, auth, issued,
                                   server_items, sc[1], sc[2], sc[3], body,
                                   written)} :
          /\ items' = out.items
          /\ cache_file' = out.cache_file
          /\ auth' = out.auth
          /\ issued' = out.issued
          /\ wire' = out.wire
          /\ phase' = IF out.res.tag = "Ok" THEN "fetched" ELSE "exited"
          /\ returned' = [op |-> "fetch_all_media", res |-> out.res]
    /\ UNCHANGED <<call, mstate, item, last_position, last_update, now,
                   result, observer, ev, stream, reported, play,
                   mpv_processes, children, cleanup_log, app, server_items>>

\* jellyfin.fetch_home_sections()? in Jellyfin::new; Ok(jellyfin) follows.
StartFetchHomeSections(hs) ==
    /\ phase = "fetched"
    /\ issued + Renewals(hs) <= MaxTokens
    /\ \E h \in {fetch_home_sections(auth, issued, hs)} :
          /\ auth' = h.auth
          /\ issued' = h.issued
          /\ wire' = h.wire
          /\ phase' = IF h.res.tag = "Ok" THEN "ready" ELSE "exited"
          /\ returned' = [op |-> "fetch_home_sections", res |-> h.res]
    /\ UNCHANGED <<call, monvars, play, mpv_processes, children, cleanup_log,
                   app, cache_file, server_items>>

NextStartup ==
    \/ \E a \in AuthAnswers : StartAuthenticate(a)
    \/ \E sc \in FetchScripts, body \in Bodies, written \in Writes :
          StartFetchAllMedia(sc, body, written)
    \/ \E hs \in FetchScripts : StartFetchHomeSections(hs)
    \/ \E op \in Ops, sc \in Scripts : Execute(op, sc[1], sc[2], sc[3])

SpecStartup == InitStartup /\ [][NextStartup]_vars

\* ------------------------------------------------------------ handle_input

\* An item as the lists of the App show it: its identifier, type_, name (a
\* string of the letters a and b) and series.
Entry(id, type_, name, sid) ==
    [id |-> id, type_ |-> type_, name |-> name, series_id |-> sid]
Letters == {"a", "b"}

\* The library of App::new: movies, series and episodes, each sorted by name.
LibMovies ==
    <<Entry(1, "Movie", <<"a">>, NoneI), Entry(2, "Movie", <<"a", "b">>, NoneI)>>
LibSeries == <<Entry(3, "Series", <<"b">>, NoneI)>>
LibEpisodes ==
    <<Entry(4, "Episode", <<"a">>, SomeI(3)),
      Entry(5, "Episode", <<"b", "b">>, SomeI(3))>>

\* The lists fetch_home_sections may leave.
HomeLists == {<<>>, <<LibMovies[1], LibSeries[1], LibEpisodes[2]>>}

HomePages ==
    {"ContinueWatching", "NextUp", "LatestAdded", "AllMovies", "AllSeries"}
SearchPages == {"All", "Movies", "Series", "Episodes"}

\* usize::saturating_sub and Ord::min.
saturating_sub(a, b) == IF a > b THEN a - b ELSE 0
min(a, b) == IF a < b THEN a ELSE b

\* SkimMatcherV2::fuzzy_match is Some when the letters of the pattern occur
\* in the name in their order.
RECURSIVE fuzzy_match(_, _)
fuzzy_match(name, pattern) ==
    IF pattern = <<>> THEN TRUE
    ELSE IF name = <<>> THEN FALSE
    ELSE IF Head(name) = Head(pattern)
    THEN fuzzy_match(Tail(name), Tail(pattern))
    ELSE fuzzy_match(Tail(name), pattern)

\* App::index and App::set_index, on the record of the App's fields.
index(ui) ==
    IF ui.selection_state = "Main" THEN ui.main_index ELSE ui.episode_index
set_index(ui, i) ==
    IF ui.selection_state = "Main"
    THEN [ui EXCEPT !.main_index = i]
    ELSE [ui EXCEPT !.episode_index = i]

\* App::selection_options.
selection_options(ui) ==
    IF ui.selection_state = "Main"
    THEN CASE ui.page = "ContinueWatching" -> ui.continue_watching
           [] ui.page = "NextUp" -> ui.next_up
           [] ui.page = "LatestAdded" -> ui.latest_added
           [] ui.page = "AllMovies" -> ui.movies
           [] ui.page = "AllSeries" -> ui.series
           [] OTHER -> ui.filtered
    ELSE IF ui.episode_list.some THEN ui.episode_list.v ELSE ui.filtered

\* App::selected_item: Vec::get, None when the index is past the end.
selected_item(ui) ==
    LET opts == selection_options(ui)
    IN  IF index(ui) < Len(opts)
        THEN [some |-> TRUE, v |-> opts[index(ui) + 1]]
        ELSE [some |-> FALSE, v |-> Entry(0, "", <<>>, NoneI)]

\* App::search: the pool of the page, filtered by the query (the order by
\* score is not modelled: the pool's order is kept).
search(ui) ==
    LET Matches(e) == fuzzy_match(e.name, ui.query)
        pool == CASE ui.page = "All" ->
                       ui.movies \o ui.series
                           \o (IF ui.include_episodes THEN ui.episodes
                               ELSE <<>>)
                  [] ui.page = "Movies" -> ui.movies
                  [] ui.page = "Series" -> ui.series
                  [] ui.page = "Episodes" -> ui.episodes
                  [] OTHER -> <<>>
    IN  IF ui.page \notin SearchPages THEN ui
        ELSE IF ui.query = <<>> THEN [ui EXCEPT !.filtered = pool]
        ELSE [ui EXCEPT !.filtered = SelectSeq(pool, Matches)]

\* The page left and right of a page.
page_left(page, include_episodes) ==
    CASE page = "ContinueWatching" -> "AllSeries"
      [] page = "NextUp" -> "ContinueWatching"
      [] page = "LatestAdded" -> "NextUp"
      [] page = "AllMovies" -> "LatestAdded"
      [] page = "AllSeries" -> "AllMovies"
      [] page = "All" -> IF include_episodes THEN "Episodes" ELSE "Series"
      [] page = "Movies" -> "All"
      [] page = "Series" -> "Movies"
      [] page = "Episodes" -> "Series"
page_right(page, include_episodes) ==
    CASE page = "ContinueWatching" -> "NextUp"
      [] page = "NextUp" -> "LatestAdded"
      [] page = "LatestAdded" -> "AllMovies"
      [] page = "AllMovies" -> "AllSeries"
      [] page = "AllSeries" -> "ContinueWatching"
      [] page = "All" -> "Movies"
      [] page = "Movies" -> "Series"
      [] page = "Series" -> IF include_episodes THEN "Episodes" ELSE "All"
      [] page = "Episodes" -> "All"

\* What handle_input returns: Ok(true), Ok(false), or a panic of the
\* subtraction.
Handled(ui, res) == [ui |-> ui, res |-> res]

on_backspace_keeping_page(ui) ==
    LET popped == [ui EXCEPT
                      !.query = IF @ = <<>> THEN @ ELSE SubSeq(@, 1, Len(@) - 1)]
        reset == [set_index(popped, 0) EXCEPT !.selection_state = "Main"]
    IN  search(reset)

\* KeyCode::Backspace.
on_backspace(ui) ==
    LET popped == [ui EXCEPT
                      !.query = IF @ = <<>> THEN @ ELSE SubSeq(@, 1, Len(@) - 1)]
        reset == [set_index(popped, 0) EXCEPT !.selection_state = "Main"]
    IN  IF reset.query # <<>>
        THEN search(reset)
        ELSE [reset EXCEPT !.page = "ContinueWatching", !.filtered = <<>>]

\* KeyCode::Char(c) without Control.
on_char(ui, c) ==
    LET paged == IF ui.query = <<>> THEN [ui EXCEPT !.page = "All"] ELSE ui
        pushed == [paged EXCEPT !.query = Append(@, c)]
    IN  search([set_index(pushed, 0) EXCEPT !.selection_state = "Main"])

\* Control with e.
on_ctrl_e(ui) ==
    LET toggled == [ui EXCEPT !.include_episodes = ~@]
        paged == IF toggled.page = "Episodes"
                 THEN [toggled EXCEPT !.page = "All"] ELSE toggled
    IN  IF paged.page = "All" THEN search(paged) ELSE paged

\* Control with Backspace or h.
on_ctrl_backspace(ui) ==
    LET cleared == [ui EXCEPT !.query = <<>>, !.page = "ContinueWatching"]
    IN  [set_index(cleared, 0) EXCEPT
            !.selection_state = "Main", !.filtered = <<>>]

\* KeyCode::Enter; the episodes are those of the series, from the library.
on_enter(ui) ==
    LET sel == selected_item(ui)
        OfSeries(e) == e.series_id = SomeI(sel.v.id)
    IN  IF ~sel.some THEN ui
        ELSE IF sel.v.type_ # "Series"
        THEN [ui EXCEPT !.current_action = "NowPlaying"]
        ELSE [ui EXCEPT
                 !.selection_state = "Episode",
                 !.episode_list =
                     [some |-> TRUE, v |-> SelectSeq(ui.episodes, OfSeries)]]

\* KeyCode::Esc in the episode list.
on_esc(ui) ==
    [set_index(ui, 0) EXCEPT
        !.selection_state = "Main",
        !.episode_list = [some |-> FALSE, v |-> <<>>]]

\* KeyCode::Down and KeyCode::PageDown: len() - 1 on an empty list overflows
\* usize, which panics in a build with overflow checks and wraps to
\* usize::MAX in a build without.
on_down(ui) ==
    LET len == Len(selection_options(ui))
    IN  IF len = 0
        THEN IF ui.overflow_checks THEN Handled(ui, Panic)
             ELSE Handled(set_index(ui, index(ui) + 1), Ok("true"))
        ELSE IF index(ui) < len - 1
        THEN Handled(set_index(ui, index(ui) + 1), Ok("true"))
        ELSE Handled(ui, Ok("true"))
on_page_down(ui) ==
    LET len == Len(selection_options(ui))
    IN  IF len = 0
        THEN IF ui.overflow_checks THEN Handled(ui, Panic)
             ELSE Handled(set_index(ui, index(ui) + ui.visible_height),
                          Ok("true"))
        ELSE Handled(set_index(ui, min(index(ui) + ui.visible_height,
                                       len - 1)), Ok("true"))

\* The keys handle_input tells apart, and an event that is not a key.
KeyCodes ==
    {"Ctrl-C", "F5", "Ctrl-R", "Ctrl-E", "Ctrl-Backspace", "Char",
     "Backspace", "Enter", "Esc", "Up", "Down", "PageUp", "PageDown", "Left",
     "Right", "Tab", "<not a key>"}

\* App::handle_input for the event read.
handle_input(ui, code, c) ==
    CASE code = "Ctrl-C" -> Handled(ui, Ok("false"))
      [] code \in {"F5", "Ctrl-R"} ->
            Handled([ui EXCEPT !.current_action = "RefreshingCache"],
                    Ok("true"))
      [] code = "Ctrl-E" -> Handled(on_ctrl_e(ui), Ok("true"))
      [] code = "Ctrl-Backspace" -> Handled(on_ctrl_backspace(ui), Ok("true"))
      [] code = "Char" -> Handled(on_char(ui, c), Ok("true"))
      [] code = "Backspace" -> Handled(on_backspace(ui), Ok("true"))
      [] code = "Enter" -> Handled(on_enter(ui), Ok("true"))
      [] code = "Esc" ->
            IF ui.selection_state = "Main" THEN Handled(ui, Ok("false"))
            ELSE Handled(on_esc(ui), Ok("true"))
      [] code = "Up" ->
            Handled(set_index(ui, saturating_sub(index(ui), 1)), Ok("true"))
      [] code = "Down" -> on_down(ui)
      [] code = "PageUp" ->
            Handled(set_index(ui, saturating_sub(index(ui),
                                                 ui.visible_height)),
                    Ok("true"))
      [] code = "PageDown" -> on_page_down(ui)
      [] code = "Left" ->
            IF ui.selection_state # "Main" THEN Handled(ui, Ok("true"))
            ELSE Handled(search([ui EXCEPT
                            !.page = page_left(@, ui.include_episodes)]),
                         Ok("true"))
      [] code = "Right" ->
            IF ui.selection_state # "Main" THEN Handled(ui, Ok("true"))
            ELSE Handled(search([ui EXCEPT
                            !.page = page_right(@, ui.include_episodes)]),
                         Ok("true"))
      [] OTHER -> Handled(ui, Ok("true"))

\* App::new and the first draw: the page ContinueWatching, no query, the
\* library of the catalog, the home lists of the startup fetch, the height
\* of the list on the terminal, and the build.
InitKeys ==
    /\ phase = "ready"
    /\ auth = 1
    /\ issued = 1
    /\ call = NoCall
    /\ wire = <<>>
    /\ MonitorIdle
    /\ play = NoPlay
    /\ mpv_processes = <<>>
    /\ children = <<>>
    /\ cleanup_log = NoCleanup
    /\ cache_file = AbsentFile
    /\ server_items = <<>>
    /\ returned = NoReturn
    /\ \E cw \in HomeLists, checks \in BOOLEAN, height \in {MaxIndex - 1} :
          app = [pc |-> "handle_input", current_action |-> "None",
                 cleanup_called |-> FALSE, overflow_checks |-> checks,
                 page |-> "ContinueWatching", query |-> <<>>,
                 main_index |-> 0, episode_index |-> 0,
                 selection_state |-> "Main", filtered |-> <<>>,
                 include_episodes |-> FALSE,
                 episode_list |-> [some |-> FALSE, v |-> <<>>],
                 visible_height |-> height, movies |-> LibMovies,
                 series |-> LibSeries, episodes |-> LibEpisodes,
                 continue_watching |-> cw, next_up |-> <<LibEpisodes[2]>>,
                 latest_added |-> <<>>]

\* One turn of the run loop with no action pending: the key is read and
\* handled.
HandleKey(code, c) ==
    /\ app.pc = "handle_input"
    /\ app.current_action = "None"
    /\ code = "Char" => Len(app.query) < MaxQuery
    /\ code \in {"Down", "PageDown"} =>
          index(app) + app.visible_height <= MaxIndex
    /\ \E out \in {handle_input(app, code, c)} :
          /\ app' = [out.ui EXCEPT
                        !.pc = IF out.res = Panic THEN "panicked"
                               ELSE IF out.res = Ok("false") THEN "cleanup"
                               ELSE "handle_input"]
          /\ returned' = [op |-> "handle_input", res |-> out.res]
    /\ UNCHANGED <<reqvars, monvars, play, mpv_processes, children,
                   cleanup_log, cache_file, server_items>>

\* One turn of the run loop with NowPlaying pending: handle_action plays the
\* item and resets the action.
PlaySelected ==
    /\ app.pc = "handle_input"
    /\ app.current_action = "NowPlaying"
    /\ app' = [app EXCEPT !.current_action = "None"]
    /\ returned' = [op |-> "handle_action", res |-> Ok("true")]
    /\ UNCHANGED <<reqvars, monvars, play, mpv_processes, children,
                   cleanup_log, cache_file, server_items>>

\* One turn with RefreshingCache pending: refresh_cache replaces the home
\* lists of the client, search runs if the query is empty, the action is
\* reset.  The lists of App::new are not rebuilt.
RefreshLists(cw) ==
    /\ app.pc = "handle_input"
    /\ app.current_action = "RefreshingCache"
    /\ LET fetched == [app EXCEPT !.continue_watching = cw]
           searched == IF fetched.query = <<>> THEN search(fetched)
                       ELSE fetched
       IN  app' = [searched EXCEPT !.current_action = "None"]
    /\ returned' = [op |-> "handle_action", res |-> Ok("true")]
    /\ UNCHANGED <<reqvars, monvars, play, mpv_processes, children,
                   cleanup_log, cache_file, server_items>>

NextKeys ==
    \/ \E code \in KeyCodes \ {"Char"} : HandleKey(code, "a")
    \/ \E c \in Letters : HandleKey("Char", c)
    \/ PlaySelected
    \/ \E cw \in HomeLists : RefreshLists(cw)

SpecKeys == InitKeys /\ [][NextKeys]_vars

\* ------------------------------------------------- claims: the request layer

\* The sends of the operation, and the authentications, of the last call.
OpSends == {i \in 1..Len(wire) : wire[i].kind = "op"}
AuthSends == {i \in 1..Len(wire) : wire[i].kind = "auth"}

\* The number of successful authentications of the last call before message i.
AuthsBefore(i) ==
    Cardinality({j \in AuthSends : j < i /\ wire[j].resp = OK})

Called == call.op # "none"

\* C1: when the first send is answered 401 and the re-authentication
\* succeeds, request authenticates exactly once, sends the same operation a
\* second time and no more, with the token just issued, and returns the
\* second response as Ok when the server accepts it.
C1_ReauthenticateAndRetryOnce ==
    (Called /\ call.r1 = UNAUTHORIZED /\ call.a = OK) =>
        /\ Cardinality(AuthSends) = 1
        /\ Cardinality(OpSends) = 2
        /\ Len(wire) = 3
        /\ wire[1].kind = "op" /\ wire[2].kind = "auth" /\ wire[3].kind = "op"
        /\ wire[1].op = call.op /\ wire[3].op = call.op
        /\ wire[3].token = call.issued0 + 1
        /\ wire[3].token # wire[1].token
        /\ wire[3].resp = call.r2
        /\ (call.r2 = OK => call.res = Ok(OK))

C1_Witness ==
    /\ Called /\ call.r1 = UNAUTHORIZED /\ call.a = OK /\ call.r2 = OK
    /\ Len(wire) = 3
    /\ call.res = Ok(OK)

\* C2: when the second send is answered 401 too, request returns an error,
\* never a successful result.
C2_SecondUnauthorizedIsError ==
    (Called /\ call.r1 = UNAUTHORIZED /\ call.a = OK /\ call.r2 = UNAUTHORIZED)
        => call.res.tag = "Err"

\* C3: one call of request sends its operation at most twice and
\* authenticates at most once; when the re-authentication fails the operation
\* is not sent again and the error of authenticate is returned.
C3_AtMostTwoSendsOneReauthentication ==
    Called =>
        /\ Cardinality(OpSends) <= 2
        /\ Cardinality(AuthSends) <= 1
        /\ (call.r1 = UNAUTHORIZED /\ call.a # OK) =>
              /\ Cardinality(OpSends) = 1
              /\ Cardinality(AuthSends) = 1
              /\ call.res = authenticate(call.issued0, call.issued0, call.a).res
              /\ call.res.tag = "Err"

C3_Witness ==
    /\ Called /\ call.r1 = UNAUTHORIZED /\ call.a = FORBIDDEN
    /\ Len(wire) = 2
    /\ call.res = Err("403")

\* C4: every send of an operation carries the token of the most recent
\* successful authentication (the token the server issued last), and the
\* client stores that token; a token replaced by a re-authentication is not
\* sent again.
C4_RequestsCarryLatestToken ==
    /\ phase = "ready" => (auth = issued /\ auth > 0)
    /\ \A i \in OpSends : wire[i].token = call.issued0 + AuthsBefore(i)

C4_Witness ==
    /\ Len(wire) = 3
    /\ wire[1].token = 1
    /\ wire[3].token = 2
    /\ auth = 2

\* ------------------------------------------------ claims: the progress pushes

\* The gates as the claims state them: 5 seconds of media time, in ticks, and
\* 10 seconds of wall-clock time, in ms.
FiveSecondsOfMedia == 5 * TicksPerSecond
TenSecondsOfClock == 10 * MsPerSec

\* C5: a position event read in the loop is pushed if and only if its
\* position is at least 5 s of media time away from last_position AND at
\* least 10 s passed since last_update; a pushed event is pushed once, with
\* its own position; an event that is not pushed sends nothing and leaves
\* last_position and last_update as they were.
C5_PushedIffMovedAndDue ==
    IsPositionEvent(ev.frame) =>
        LET p == ToTicks(ev.frame.data.v)
            due == /\ Abs(p - ev.lp0) >= FiveSecondsOfMedia
                   /\ ev.at - ev.lu0 >= TenSecondsOfClock
        IN  /\ due <=> ev.pushed # <<>>
            /\ due => ev.pushed = <<Progress(item.id, p)>>
            /\ ~due => (last_position = ev.lp0 /\ last_update = ev.lu0)

C5_Witness ==
    /\ IsPositionEvent(ev.frame)
    /\ ev.lp0 > 0
    /\ ev.pushed = <<Progress(item.id, ToTicks(ev.frame.data.v))>>
    /\ last_position # ev.lp0

\* C6, as claimed: a stream of position events of which each two consecutive
\* ones are less than 5 s of media time and less than 10 s of wall-clock time
\* apart causes at most one push.
C6_NearEventsPushAtMostOnce ==
    stream.near => stream.pushes <= 1

\* C6, amended: a stream of position events of which every two, not only
\* consecutive ones, are less than 5 s of media time apart causes at most one
\* push.
C6_EventsWithinFiveSecondsPushAtMostOnce ==
    (stream.any /\ stream.hi - stream.lo < FiveSecondsOfMedia)
        => stream.pushes <= 1

\* One push, and later an event at another position, 10 s or more after the
\* push, that was not pushed.
C6_Witness ==
    /\ stream.pushes = 1
    /\ stream.hi - stream.lo < FiveSecondsOfMedia
    /\ stream.prev # last_position
    /\ stream.prevAt - last_update >= TenSecondsOfClock

\* C7: a pause event with a boolean value read in the loop makes exactly one
\* push, of the item, last_position and the pause flag, whatever the time
\* since last_update, and leaves last_position and last_update as they were.
C7_PauseAlwaysPushed ==
    IsPauseEvent(ev.frame) =>
        /\ ev.pushed = <<ProgressPaused(item.id, ev.lp0, ev.frame.data.v)>>
        /\ last_position = ev.lp0
        /\ last_update = ev.lu0

\* A pause read less than 10 s after a position push.
C7_Witness ==
    /\ IsPauseEvent(ev.frame)
    /\ ev.lp0 > 0
    /\ ev.at - ev.lu0 < TenSecondsOfClock
    /\ Len(ev.pushed) = 1

\* C8, as claimed: the positions the session reports never decrease.
C8_ReportedPositionsNeverDecrease ==
    reported.nondecreasing

\* C8, amended: the positions the session reports never decrease as long as
\* no position event is lower than the one before it.
C8_ForwardPlaybackReportsNeverDecrease ==
    reported.forward => reported.nondecreasing

\* A session of forward playback that pushed 5 s, then 10 s, and has sent its
\* stopped notification.
C8_Witness ==
    /\ reported.forward
    /\ reported.any
    /\ reported.last >= 2 * FiveSecondsOfMedia
    /\ mstate = "Finished"
    /\ result = MOk(NoneItem)

\* ------------------------------------------ claims: next-episode resolution

\* The season and episode numbers of an item, and the items of the catalog.
Numbers(e) == <<e.parent_index_number, e.index_number>>
CatalogItems == {items[k] : k \in DOMAIN items}
SameSeries == {e \in CatalogItems : e.series_id = item.series_id}

S1E1 == <<SomeI(1), SomeI(1)>>
S1E2 == <<SomeI(1), SomeI(2)>>
S2E1 == <<SomeI(2), SomeI(1)>>

\* The catalog is one series with exactly the episodes S1E1, S1E2, S2E1.
IsExampleCatalog ==
    /\ Cardinality(CatalogItems) = 3
    /\ \A e \in CatalogItems : e.series_id = SomeI(1)
    /\ {Numbers(e) : e \in CatalogItems} = {S1E1, S1E2, S2E1}

\* C9: in that catalog the end of the stream of S1E1 yields S1E2, of S1E2
\* yields S2E1, and of S2E1 yields no next item.
C9_ExampleSeriesResolution ==
    (IsExampleCatalog /\ mstate = "Finished") =>
        /\ result.tag = "Ok"
        /\ Numbers(item) = S1E1 =>
              (result.val.some /\ Numbers(result.val.v) = S1E2)
        /\ Numbers(item) = S1E2 =>
              (result.val.some /\ Numbers(result.val.v) = S2E1)
        /\ Numbers(item) = S2E1 => ~result.val.some

\* The items the claims speak of: the episode after the current one by its
\* episode number, and the first episode of the next season.
ByEpisodeNumber ==
    {e \in SameSeries : e.index_number = map_succ(item.index_number)}
BySeasonNumber ==
    {e \in SameSeries :
        /\ e.parent_index_number = map_succ(item.parent_index_number)
        /\ e.index_number = SomeI(1)}

\* Every item of the catalog has a season and an episode number.
AllNumbered ==
    \A e \in CatalogItems : e.parent_index_number.some /\ e.index_number.some

\* C10, as claimed (on the catalogs whose items all have their numbers): the
\* result is an item with the episode number current+1 whenever one exists;
\* only when none exists, an item of season current+1 with episode number 1;
\* when neither exists, no item.
C10_EpisodeNumberBeforeSeason ==
    (mstate = "Finished" /\ item.series_id.some /\ AllNumbered) =>
        /\ result.tag = "Ok"
        /\ IF ByEpisodeNumber # {}
           THEN result.val.some /\ result.val.v \in ByEpisodeNumber
           ELSE IF BySeasonNumber # {}
           THEN result.val.some /\ result.val.v \in BySeasonNumber
           ELSE ~result.val.some

\* C10, amended: the result is the first item, in the order of (season,
\* episode) with an absent number counted as 0, among the items of the series
\* that have the episode number current+1 or are episode 1 of season
\* current+1; when there is none, no item.
C10_FirstMatchInSeasonEpisodeOrder ==
    (mstate = "Finished" /\ item.series_id.some) =>
        LET matches == ByEpisodeNumber \cup BySeasonNumber
            key(e) == <<unwrap_or(e.parent_index_number, 0),
                        unwrap_or(e.index_number, 0)>>
            before(x, y) == \/ key(x)[1] < key(y)[1]
                            \/ key(x)[1] = key(y)[1] /\ key(x)[2] <= key(y)[2]
        IN  /\ result.tag = "Ok"
            /\ matches = {} => ~result.val.some
            /\ matches # {} =>
                  /\ result.val.some
                  /\ result.val.v \in matches
                  /\ \A e \in matches : before(result.val.v, e)

\* The first episode of the next season is returned although an item with
\* the episode number current+1 exists, later in the order.
C10_Witness ==
    /\ mstate = "Finished"
    /\ item.series_id.some
    /\ AllNumbered
    /\ result.tag = "Ok"
    /\ result.val.some
    /\ result.val.v \in BySeasonNumber
    /\ ByEpisodeNumber # {}
    /\ result.val.v \notin ByEpisodeNumber

\* ------------------------------------------ claims: the ends of a session

\* The number of connect attempts of a monitor that never connects: one
\* every retry_delay from its start to the timeout.
AttemptsUntilTimeout == (ConnectTimeoutSecs * MsPerSec) \div RetryDelayMs + 1

\* C11: when the control socket never becomes connectable, the connect loop
\* stops after a bounded number of attempts 50 ms apart (10 s in total) and
\* play_media returns "no next item": Ok(None), no error.
C11_ConnectTimeoutReturnsNoNextItem ==
    (returned.op = "play_media" /\ play.exit = "connect timeout") =>
        /\ play.attempts = AttemptsUntilTimeout
        /\ returned.res.tag = "Ok"
        /\ ~returned.res.val.some

C13_StoppedSentOnEveryExit ==
    (mstate = "Finished" /\ result.tag = "Ok") =>
        ev.pushed = <<Stopped(item.id, last_position)>>

\* C14: a pass of the session that makes a telemetry call (a pause push, a
\* position push, the stopped notification) leaves the loop, the result and
\* the two locals as the same pass does when the server answers 200,
\* whatever the server answers: a failed call does not end the loop, does
\* not change the result and is not returned as an error.
C14_TelemetryFailureIsolated ==
    [][(mstate = "Observing" /\ ev'.pushed # <<>>) =>
          LET quiet ==
                  IF ev'.frame = ClosedFrame
                  THEN after_loop(last_position, last_update, auth, issued,
                                  item, OK, OK, OK)
                  ELSE loop_body(ev'.frame, now', last_position, last_update,
                                 auth, issued, item, <<>>, OK, OK, OK)
          IN  /\ mstate' = IF quiet.ret = "continue" THEN "Observing"
                            ELSE "Finished"
              /\ result' = IF quiet.ret = "continue" THEN result
                            ELSE IF quiet.ret = "panic" THEN MPanic
                            ELSE MOk(quiet.value)
              /\ last_position' = quiet.last_position
              /\ last_update' = quiet.last_update]_vars

\* A position push has failed and the session goes on observing.
C14_Witness ==
    /\ mstate = "Observing"
    /\ IsPositionEvent(ev.frame)
    /\ ev.pushed # <<>>
    /\ call.res.tag = "Err"

\* C15: when the socket closes (a read of zero bytes) and no end of stream
\* was read, the session ends with Ok(None): "no next item", no error.
C15_SocketClosedIsNormalStop ==
    (mstate = "Finished" /\ ev.frame = ClosedFrame) => result = MOk(NoneItem)

\* The socket closed after a position was reported.
C15_Witness ==
    /\ mstate = "Finished"
    /\ ev.frame = ClosedFrame
    /\ ev.lp0 > 0
    /\ result = MOk(NoneItem)

\* C16: a frame that is neither a well-formed property-change nor an
\* end-file is skipped: the session stays in Observing, nothing is pushed
\* for it and the session does not fail.
C16_MalformedFramesAreSkipped ==
    ev.frame \in MalformedFrames =>
        /\ mstate = "Observing"
        /\ ev.pushed = <<>>
        /\ result = MRunning

\* ------------------------------------------- claims: the process registry

\* C17: cleanup calls kill and wait on every handle of the registry even
\* when kill or wait of an earlier handle fails, and the registry is empty
\* when it returns, whether or not a handle failed.
C17_CleanupAttemptsEveryHandle ==
    returned.op = "cleanup" =>
        /\ cleanup_log.kills = Handles(cleanup_log.before)
        /\ cleanup_log.waits = Handles(cleanup_log.before)
        /\ mpv_processes = <<>>

\* C18: cleanup on an empty registry, or directly after a cleanup, returns
\* Ok, terminates no process and leaves the registry empty.
C18_CleanupIdempotent ==
    (returned.op = "cleanup"
        /\ (cleanup_log.before = <<>> \/ cleanup_log.again)) =>
        /\ cleanup_log.res.tag = "Ok"
        /\ cleanup_log.terminated = {}
        /\ mpv_processes = <<>>

\* ---------------------------------------------------- claims: the run loop

\* C19: when run has returned, by a quit or by an error of drawing, of an
\* action or of input handling, cleanup has been called, and no player is
\* left registered and running.
C19_CleanupBeforeRunReturns ==
    app.pc = "returned" =>
        /\ app.cleanup_called
        /\ \A h \in Handles(mpv_processes) : children[h] # "running"

\* ------------------------------------------------ claims: the catalog cache

\* C20: when the cache file reads and parses as a map of identifiers to
\* items, fetch_all_media makes that map the catalog in memory and sends
\* nothing to the server, whatever the server holds.
C20_ValidCacheIsTrusted ==
    [][from_str(cache_file).tag = "Ok" =>
          /\ returned'.op = "fetch_all_media"
          /\ returned'.res.tag = "Ok"
          /\ items' = from_str(cache_file).val
          /\ wire' = <<>>
          /\ cache_file' = cache_file]_vars

\* The catalog was taken from a cache file that differs from what the
\* server holds, and nothing was sent.
C20_Witness ==
    /\ returned.op = "fetch_all_media"
    /\ wire = <<>>
    /\ items # <<>>
    /\ to_string(items) = cache_file
    /\ items # collect(server_items)

\* C21: when the cache file is missing or does not parse, fetch_all_media
\* returns no error for that and queries the server; when it returns Ok the
\* catalog in memory is the answer keyed by identifier and the cache file
\* holds that same map.
C21_InvalidCacheIsRefetched ==
    [][from_str(cache_file).tag = "Err" =>
          /\ returned'.op = "fetch_all_media"
          /\ wire' # <<>>
          /\ returned'.res.tag = "Err" => returned'.res.val # "cache"
          /\ returned'.res.tag = "Ok" =>
                /\ items' = collect(server_items)
                /\ cache_file' = to_string(items')]_vars

\* A fetch has queried the server and has written its answer, a catalog that
\* is not empty, to the cache file.
C21_Witness ==
    /\ returned.op = "fetch_all_media"
    /\ returned.res.tag = "Ok"
    /\ wire # <<>>
    /\ items # <<>>
    /\ items = collect(server_items)
    /\ cache_file = to_string(items)

\* C22: a catalog that is not empty, written to the cache file and loaded
\* back by fetch_all_media, is the same map: the same identifiers, the same
\* item for each.
C22_CacheRoundTrip ==
    [][(items # <<>> /\ cache_file = to_string(items)) =>
          /\ returned'.res.tag = "Ok"
          /\ items' = items]_vars

\* A catalog with an item of a series and an item of none was loaded back
\* from the file it was written to.
C22_Witness ==
    /\ returned.op = "fetch_all_media"
    /\ wire = <<>>
    /\ cache_file = to_string(items)
    /\ \E k \in DOMAIN items : items[k].series_id.some
    /\ \E k \in DOMAIN items : ~items[k].series_id.some

\* The calls of a refresh_cache that succeeds, in their order.
RefreshOrder == <<"remove_file", "fetch_all_media", "fetch_home_sections">>

\* The sends of the Items query among the messages of the last operation.
ItemsQueries == {i \in 1..Len(wire) : wire[i].op = "Items"}

\* C23: refresh_cache removes the cache file, then runs the catalog fetch,
\* which queries the server and writes the cache file, then the home
\* sections fetch, in that order; after a refresh_cache that returned Ok the
\* catalog in memory and the cache file are the server's catalog.
C23_RefreshRefetchesInOrder ==
    returned.op = "refresh_cache" =>
        /\ returned.did = SubSeq(RefreshOrder, 1, Len(returned.did))
        /\ returned.res.tag = "Ok" =>
              /\ returned.did = RefreshOrder
              /\ ItemsQueries # {}
              /\ \E i \in 1..Len(wire) :
                    wire[i].op = "Resume" /\ \A q \in ItemsQueries : q < i
              /\ items = collect(server_items)
              /\ cache_file = to_string(items)

\* A refresh has returned Ok with a catalog that is not empty.
C23_Witness ==
    /\ returned.op = "refresh_cache"
    /\ returned.res.tag = "Ok"
    /\ items # <<>>
    /\ cache_file = to_string(collect(server_items))

\* C24: a refresh_cache that starts with a cache file holding a complete
\* catalog leaves a cache file holding a complete catalog, the one before or
\* the new one, also when the fetch fails.
C24_CacheFileAlwaysComplete ==
    [][(returned'.op = "refresh_cache" /\ from_str(cache_file).tag = "Ok") =>
          \/ cache_file' = cache_file
          \/ cache_file' = to_string(collect(server_items))]_vars

\* C25: authenticate answers a 401 with the error "401" and a 403 with the
\* error "403", two different errors, and in both cases self.auth is what it
\* was before the call: at startup, and when request re-authenticates.
C25_AuthErrorsDistinctAuthKept ==
    [][/\ (phase = "new" /\ phase' = "exited") => auth' = auth
       /\ (/\ phase = "ready"
           /\ call'.r1 = UNAUTHORIZED
           /\ call'.a \in {UNAUTHORIZED, FORBIDDEN}) =>
              /\ auth' = auth
              /\ call'.res = Err(IF call'.a = UNAUTHORIZED THEN "401" ELSE "403")
              /\ Err("401") # Err("403")]_vars

\* A re-authentication has been refused with 403 while a token was stored.
C25_Witness ==
    /\ phase = "ready"
    /\ call.r1 = UNAUTHORIZED
    /\ call.a = FORBIDDEN
    /\ call.res = Err("403")
    /\ auth > 0

\* Whether the numbers of a sequence grow from each one to the next.
Increasing(q) == \A i, j \in DOMAIN q : i < j => q[i] < q[j]

\* C26: the pushes of a session are started in the order their frames were
\* read and return in the order they were started, and no push is started
\* while an earlier one, with its re-authentication and second send, has not
\* returned: at most one push is in flight, and one is exactly while the
\* loop waits in request.
C26_PushesInReadOrderOneInFlight ==
    observer = "order" =>
        /\ ~stream.overlap
        /\ Increasing(stream.started)
        /\ \A i \in DOMAIN stream.started : stream.started[i] <= stream.reads
        /\ Len(stream.finished) <= Len(stream.started)
        /\ stream.finished = SubSeq(stream.started, 1, Len(stream.finished))
        /\ Len(stream.started) - Len(stream.finished)
              = (IF mstate = "Pushing" THEN 1 ELSE 0)

\* A third frame's push is in flight after the pushes of two earlier frames
\* returned, one of them after a re-authentication.
C26_Witness ==
    /\ observer = "order"
    /\ mstate = "Pushing"
    /\ Len(stream.finished) = 2
    /\ stream.reads = 3
    /\ auth = MaxTokens

\* The subscription the player must have received.
ThreeSubscriptions ==
    <<[command |-> "observe_property", tag |-> 1, name |-> "playback-time"],
      [command |-> "observe_property", tag |-> 2, name |-> "pause"],
      [command |-> "observe_property", tag |-> 3, name |-> "eof-reached"]>>

\* C27: the monitor is in its read loop, or has read a frame, only after it
\* wrote the three observe_property commands playback-time (1), pause (2)
\* and eof-reached (3), in that order and nothing else; before the connect
\* nothing is written, and a session that failed to write them reads no frame.
C27_SubscribedBeforeObserving ==
    play.pc = "monitoring" =>
        /\ (mstate = "Observing" \/ ev # NoEv) => play.sent = ThreeSubscriptions
        /\ mstate \in {"Connecting", "Subscribing"} =>
              play.sent = <<>> /\ ev = NoEv
        /\ play.exit \in {"connect timeout", "subscribe write"} => ev = NoEv

\* The monitor has connected and subscribed and has read no frame yet.
C27_Witness ==
    /\ play.pc = "monitoring"
    /\ mstate = "Observing"
    /\ play.sent = ThreeSubscriptions
    /\ play.attempts > 1
    /\ ev = NoEv

\* C30: when the end-file frame with the reason "eof" is read for an item
\* with no series identifier, the session ends with Ok(None), no next item,
\* and does not fail.
C30_MovieEndsWithNoNextItem ==
    (/\ mstate = "Finished"
     /\ ev.frame = EndFileFrame("eof")
     /\ ~item.series_id.some) => result = MOk(NoneItem)

\* C28: when play_media returns a next item to handle_action, the run loop
\* goes on with the action NowPlaying, so that the next item is played
\* without a key being read.
C28_NextItemIsPlayed ==
    [][(/\ app.pc = "handle_action"
        /\ app.current_action = "NowPlaying"
        /\ app'.pc = "draw"
        /\ returned'.op = "play_media"
        /\ returned'.res.val.some) => app'.current_action = "NowPlaying"]_vars

\* C29: every line the player completed on the socket has been matched on by
\* the loop once, in order, however the lines were grouped into reads.
C29_EveryFrameDispatchedOnce ==
    (observer = "chunks" /\ ~stream.open) =>
        stream.dispatched = stream.written

\* An end-file frame whose reason is not the string "eof".
IsOtherEndFile(f) == f.event = "end-file" /\ f.reason # "eof"

\* C31: an end-file frame whose reason is missing or is not "eof" leaves the
\* session in Observing with no result, pushes nothing and changes neither
\* last_position nor last_update; when the socket closes next, the session
\* ends with Ok(None) after the stopped notification.
C31_OtherEndFileKeepsObserving ==
    [][/\ IsOtherEndFile(ev'.frame) =>
             /\ mstate' = "Observing"
             /\ result' = MRunning
             /\ ev'.pushed = <<>>
             /\ last_position' = last_position
             /\ last_update' = last_update
       /\ (IsOtherEndFile(ev.frame) /\ ev'.frame = ClosedFrame) =>
             /\ mstate' = "Finished"
             /\ result' = MOk(NoneItem)
             /\ ev'.pushed = <<Stopped(item.id, last_position)>>]_vars

\* An end-file frame without a reason has been read after a position was
\* reported, and the session goes on.
C31_Witness ==
    /\ ev.frame = EndFileFrame("<absent>")
    /\ mstate = "Observing"
    /\ result = MRunning
    /\ ev.lp0 > 0
    /\ last_position = ev.lp0

\* The pass for the frame of the record was a position-triggered push.
PositionPush(e) == IsPositionEvent(e.frame) /\ e.pushed # <<>>

\* C32: after a position-triggered push, last_position is the position
\* pushed and last_update the time of the pass, whether request returned Ok
\* or Err; and the position-triggered push that follows a failed one is not
\* throttled relative to the failed one.
C32_FailedPushMovesTheThrottle ==
    [][/\ PositionPush(ev') =>
             /\ last_position' = ToTicks(ev'.frame.data.v)
             /\ last_update' = ev'.at
       /\ (PositionPush(ev) /\ call.res.tag = "Err" /\ PositionPush(ev')) =>
             ~Throttled(ToTicks(ev'.frame.data.v), ToTicks(ev.frame.data.v),
                        ev'.at - ev.at)]_vars

\* A position-triggered push has failed and the two locals have moved to it.
C32_Witness ==
    /\ PositionPush(ev)
    /\ call.res.tag = "Err"
    /\ ev.lp0 < last_position
    /\ ev.lu0 < last_update
    /\ last_position = ToTicks(ev.frame.data.v)

\* The monitor has done something: a connect attempt, a write, a read, a
\* push or the removal of the socket file.
Monitored ==
    \/ mstate # "Idle"
    \/ play.attempts > 0
    \/ play.sent # <<>>
    \/ ev # NoEv
    \/ result # MRunning
    \/ play.socket \notin {"absent", "stale"}
    \/ play.exit # "none"

\* C33: whenever the monitor has connected or tried to, every player
\* spawned is in the registry, once, and stays there when it has exited and
\* when play_media has returned; when the spawn fails play_media returns the
\* error, the registry holds what it held and the monitor has done nothing.
C33_RegisteredBeforeMonitoring ==
    play.pc # "idle" =>
        /\ (Monitored \/ play.pc = "monitoring") =>
              mpv_processes = [i \in DOMAIN children |-> i]
        /\ (play.pc = "returned" /\ returned.res = Err("spawn")) =>
              /\ mpv_processes = [i \in DOMAIN children |-> i]
              /\ \A i \in DOMAIN children : i <= 1
              /\ ~Monitored
        /\ Len(mpv_processes) <= Len(children)
        /\ play.pc = "spawning" => ~Monitored

\* play_media has returned after a session whose player, registered second,
\* has exited.
C33_Witness ==
    /\ play.pc = "returned"
    /\ returned.res.tag = "Ok"
    /\ mpv_processes = <<1, 2>>
    /\ children[2] = "exited"
    /\ play.attempts > 0

\* The requests of an operation among the messages of the last call.
OpMessages == {i \in DOMAIN wire : wire[i].kind = "op"}

\* C34: every request is sent with a token of an authentication that
\* succeeded before, and no unwrap of the credentials panics: startup
\* authenticates first and ends on a failure, fetches the catalog next and
\* the home sections last, and only then is the client used.
C34_NoRequestBeforeAuthentication ==
    /\ \A i \in OpMessages : wire[i].token > 0 /\ wire[i].token <= issued
    /\ OpMessages # {} => phase # "new" /\ returned.op # "authenticate"
    /\ returned.res.tag # "Panic"
    /\ call.res.tag # "Panic"
    /\ phase \in {"authenticated", "fetched", "ready"} => auth > 0
    /\ phase = "authenticated" => returned.op = "authenticate"
    /\ phase = "fetched" => returned.op = "fetch_all_media"
    /\ phase = "ready" => returned.op = "fetch_home_sections"
    /\ (returned.op = "authenticate" /\ returned.res.tag = "Err") =>
          phase = "exited" /\ auth = 0

\* The client is constructed and has made a request with the token of a
\* re-authentication.
C34_Witness ==
    /\ phase = "ready"
    /\ returned.op = "fetch_home_sections"
    /\ call.op # "none"
    /\ OpMessages # {}
    /\ auth > 1

\* The query of the last fetch failed: in transport, on a refused
\* re-authentication, or on a response that does not parse.
QueryFailed(ret) ==
    /\ ret.op = "fetch_all_media"
    /\ ret.res.tag = "Err"
    /\ ret.res.val # "write"

\* C35: a fetch_all_media whose query fails returns the error and leaves the
\* catalog in memory and the cache file as they were.
C35_FailedQueryChangesNothing ==
    [][(from_str(cache_file).tag = "Err" /\ QueryFailed(returned')) =>
          /\ wire' # <<>>
          /\ items' = items
          /\ cache_file' = cache_file]_vars

\* The query failed while a catalog was in memory and the cache file did not
\* parse.
C35_Witness ==
    /\ QueryFailed(returned)
    /\ returned.res.val \in {"send", "json", "403"}
    /\ wire # <<>>
    /\ items # <<>>
    /\ cache_file = GarbageFile

\* ------------------------------------------------------ claims: the lists

\* C36: the index of the active list is a position of the list shown when
\* the list is not empty, and 0 when it is empty, and no key makes
\* handle_input fail.
C36_SelectionIndexValid ==
    app.pc \in {"handle_input", "cleanup", "panicked"} =>
        /\ app.pc # "panicked"
        /\ IF selection_options(app) = <<>>
           THEN index(app) = 0
           ELSE index(app) < Len(selection_options(app))

\* C37: the query is empty exactly on the home pages and not empty exactly
\* on the search pages, and the page is Episodes only while
\* include_episodes is on.
C37_QueryMatchesPage ==
    app.pc \in {"handle_input", "cleanup", "panicked"} =>
        /\ app.page \in HomePages \cup SearchPages
        /\ app.query = <<>> <=> app.page \in HomePages
        /\ app.query # <<>> <=> app.page \in SearchPages
        /\ app.page = "Episodes" => app.include_episodes

\* The page Episodes is shown for a query of two letters after a refresh.
C37_Witness ==
    /\ app.pc = "handle_input"
    /\ app.page = "Episodes"
    /\ Len(app.query) = 2
    /\ app.include_episodes
    /\ returned.op = "handle_action"

====
